---- MODULE Spec2Model ----
(***************************************************************************)
(* Verification engine of the zk-SNARK circuit safety verifier:            *)
(* the verification graph of a sub-component frame, the fixed-signal       *)
(* propagation over the component tree, the per-frame verdict and the      *)
(* roll-up of the verdict tree into the result of verify.                  *)
(*                                                                         *)
(* Constraints are R1CS triples (a, b, c) of linear terms, standing for    *)
(* a*b + c = 0 over the prime field.  A linear term is a map from signal   *)
(* index to a non-zero coefficient (the HashMap<usize, BigInt> of the      *)
(* code); key 0 carries the constant term.                                 *)
(***************************************************************************)
EXTENDS Integers, Sequences, FiniteSets, TLC

VARIABLES
    ctx,        \* the parsed input: component tree, constraint storage, witness
    frames,     \* path of a frame in the component tree -> its verification graph
    cur,        \* call stack of verify_subcomponents: paths, innermost frame last
    phase,      \* "verify" | "flatten" | "cas" | "finished"
    pol_queue,  \* what the traversal of the verdict tree returned
    result,     \* what verify returned: "none" (not yet), "true", "false", "error", "panic"
    hist        \* history: first-fixpoint snapshots, re-runs, child verifications,
                \* what the CAS driver returned, how often the CAS was spawned

vars == <<ctx, frames, cur, phase, pol_queue, result, hist>>

(***************************************************************************)
(* Bounds of the model.                                                    *)
(***************************************************************************)
\* largest number of constraints drawn for the root frame
MaxConstraints == 2
\* how often propagation is run again on a frame that reached its fixpoint
MaxReruns == 1

(***************************************************************************)
(* Field and constraint algebra.                                           *)
(***************************************************************************)
\* the field prime of the circuit (context.field)
FieldPrime == 3

\* key of the constant term in a linear term
constant_coefficient == 0

EmptyTerm == <<>>

Get(term, k) == IF k \in DOMAIN term THEN term[k] ELSE 0

\* drop the keys whose coefficient is zero
fix_raw_expression(term) ==
    [k \in {j \in DOMAIN term : term[j] % FieldPrime # 0} |-> term[k] % FieldPrime]

AddTerms(f, g) ==
    fix_raw_expression([k \in (DOMAIN f) \cup (DOMAIN g) |-> (Get(f, k) + Get(g, k)) % FieldPrime])

ScaleTerm(coef, f) ==
    fix_raw_expression([k \in DOMAIN f |-> (coef * f[k]) % FieldPrime])

NewConstraint(ta, tb, tc) == [a |-> ta, b |-> tb, c |-> tc]

\* every signal appearing in the constraint (the constant key is no signal)
take_signals(con) ==
    ((DOMAIN con.a) \cup (DOMAIN con.b) \cup (DOMAIN con.c)) \ {constant_coefficient}

is_linear(con) == (DOMAIN con.a = {}) \/ (DOMAIN con.b = {})

is_empty(con) == (DOMAIN con.a = {}) /\ (DOMAIN con.b = {}) /\ (DOMAIN con.c = {})

has_constant_coefficient(con) ==
    \/ constant_coefficient \in DOMAIN con.a
    \/ constant_coefficient \in DOMAIN con.b
    \/ constant_coefficient \in DOMAIN con.c

is_constant_expression(term) == DOMAIN term = {constant_coefficient}

\* a*b + c = 0 with the product folded into c when one factor is a constant
fix_constraint(con) ==
    LET ta == fix_raw_expression(con.a)
        tb == fix_raw_expression(con.b)
        tc == fix_raw_expression(con.c)
    IN  IF DOMAIN ta = {} \/ DOMAIN tb = {}
        THEN NewConstraint(EmptyTerm, EmptyTerm, tc)
        ELSE IF is_constant_expression(ta)
        THEN NewConstraint(EmptyTerm, EmptyTerm, AddTerms(ScaleTerm(ta[constant_coefficient], tb), tc))
        ELSE IF is_constant_expression(tb)
        THEN NewConstraint(EmptyTerm, EmptyTerm, AddTerms(ScaleTerm(tb[constant_coefficient], ta), tc))
        ELSE NewConstraint(ta, tb, tc)

\* a substitution replaces signal var by the linear expression to
Substitution(v, t) == [var |-> v, to |-> t]

raw_substitution(term, sub) ==
    IF sub.var \in DOMAIN term
    THEN AddTerms([k \in (DOMAIN term) \ {sub.var} |-> term[k]], ScaleTerm(term[sub.var], sub.to))
    ELSE term

apply_substitution(con, sub) ==
    fix_constraint(NewConstraint(raw_substitution(con.a, sub),
                                 raw_substitution(con.b, sub),
                                 raw_substitution(con.c, sub)))

\* the constant expression of value v
NumberTerm(v) ==
    IF v % FieldPrime = 0 THEN EmptyTerm ELSE (constant_coefficient :> (v % FieldPrime))

RECURSIVE SumTerm(_, _, _)
SumTerm(term, keys, asg) ==
    IF keys = {} THEN 0
    ELSE LET k == CHOOSE j \in keys : TRUE
         IN  (term[k] * (IF k = constant_coefficient THEN 1 ELSE asg[k])
              + SumTerm(term, keys \ {k}, asg)) % FieldPrime

\* value of a linear term under an assignment of field elements to signals
EvalTerm(term, asg) == SumTerm(term, DOMAIN term, asg)

\* the assignment satisfies a*b + c = 0
Satisfies(con, asg) ==
    (EvalTerm(con.a, asg) * EvalTerm(con.b, asg) + EvalTerm(con.c, asg)) % FieldPrime = 0

(***************************************************************************)
(* Input data: the component tree, the constraint storage, the witness.    *)
(***************************************************************************)
\* a node of the component tree, before its constraints are known
TreeConstraints(id, no, ni, nsig, isig, kids) ==
    [ node_id |-> id, number_outputs |-> no, number_inputs |-> ni,
      number_signals |-> nsig, initial_signal |-> isig,
      initial_constraint |-> 0, no_constraints |-> 0,
      are_double_arrow |-> <<>>, subcomponents |-> kids ]

\* the sub-tree reached from tree by the child positions of path
RECURSIVE TreeAt(_, _)
TreeAt(tree, path) ==
    IF path = <<>> THEN tree
    ELSE TreeAt(tree.subcomponents[Head(path)], Tail(path))

RECURSIVE SetTreeAt(_, _, _)
SetTreeAt(tree, path, sub) ==
    IF path = <<>> THEN sub
    ELSE [tree EXCEPT !.subcomponents[Head(path)] = SetTreeAt(@, Tail(path), sub)]

\* the view of the context a frame is verified under
InputDataContextView(c, path) ==
    [ tree_constraints |-> TreeAt(c.tree, path),
      constraint_storage |-> c.constraint_storage,
      witness |-> c.witness,
      signal_name_map |-> c.signal_name_map ]

get_subcomponent_context_view(view, idx) ==
    [view EXCEPT !.tree_constraints = view.tree_constraints.subcomponents[idx + 1]]

read_constraint(storage, id) == storage[id + 1]

\* the name of a signal in circuit_signals.sym, its "main." prefix stripped
SignalName(s) == <<"s", s>>

(***************************************************************************)
(* Construction of the verification graph of a frame.                      *)
(***************************************************************************)
\* faulty variant: the loop over the outputs stops one short
OutputSignals_one_short(tc) ==
    {idx + tc.initial_signal : idx \in 0 .. (tc.number_outputs - 2)}

OutputSignals(tc) ==
    {idx + tc.initial_signal : idx \in 0 .. (tc.number_outputs - 1)}

\* faulty variant: the inputs are taken to start at initial_signal
InputSignals_without_outputs_offset(tc) ==
    {idx + tc.initial_signal : idx \in 0 .. (tc.number_inputs - 1)}

InputSignals(tc) ==
    {idx + tc.number_outputs + tc.initial_signal : idx \in 0 .. (tc.number_inputs - 1)}

IntermediateSignals(tc) ==
    {idx + tc.number_outputs + tc.number_inputs + tc.initial_signal :
        idx \in 0 .. (tc.number_signals - tc.number_outputs - tc.number_inputs - 1)}

\* faulty variant: the child is built awaiting none of its inputs
SubComponent_awaiting_nothing(c) ==
    [ input_signals |-> InputSignals(c),
      output_signals |-> OutputSignals(c),
      not_yet_fixed_inputs |-> {} ]

SubComponent(c) ==
    [ input_signals |-> InputSignals(c),
      output_signals |-> OutputSignals(c),
      not_yet_fixed_inputs |-> InputSignals(c) ]

\* signal -> node; the ports of the children are registered last and overwrite
\* the kinds the frame's own ranges gave.  An input port is tagged with the
\* child's node_id, an output port with the child's position in subcomponents.
NodesOf(tc) ==
    LET kids == tc.subcomponents
        own == OutputSignals(tc) \cup InputSignals(tc) \cup IntermediateSignals(tc)
        ins == UNION {InputSignals(kids[k]) : k \in DOMAIN kids}
        outs == UNION {OutputSignals(kids[k]) : k \in DOMAIN kids}
        lastIn(s) == CHOOSE k \in DOMAIN kids :
                        /\ s \in InputSignals(kids[k])
                        /\ \A j \in DOMAIN kids : s \in InputSignals(kids[j]) => j <= k
        lastOut(s) == CHOOSE k \in DOMAIN kids :
                        /\ s \in OutputSignals(kids[k])
                        /\ \A j \in DOMAIN kids : s \in OutputSignals(kids[j]) => j <= k
    IN  [s \in own \cup ins \cup outs |->
            IF s \in outs THEN <<"SubComponentOutputSignal", lastOut(s) - 1>>
            ELSE IF s \in ins THEN <<"SubComponentInputSignal", kids[lastIn(s)].node_id>>
            ELSE IF s \in OutputSignals(tc) THEN <<"OutputSignal">>
            ELSE IF s \in InputSignals(tc) THEN <<"InputSignal">>
            ELSE <<"IntermediateSignal">>]

SafeAssignment(storage, pair) ==
    [ lhs_signal |-> pair[2],
      rhs_signals |-> take_signals(read_constraint(storage, pair[1])) \ {pair[2]},
      associated_constraint |-> pair[1],
      active |-> TRUE ]

UnsafeConstraint(storage, id) ==
    [ signals |-> take_signals(read_constraint(storage, id)),
      associated_constraint |-> id,
      active |-> TRUE ]

\* faulty variant: the double arrows are not left out
RECURSIVE UnsafeIndices_all(_, _, _)
UnsafeIndices_all(from, to, safe) ==
    IF from >= to THEN <<>>
    ELSE <<from>> \o UnsafeIndices_all(from + 1, to, safe)

\* the constraint indices of the frame that no double arrow names, ascending
RECURSIVE UnsafeIndices(_, _, _)
UnsafeIndices(from, to, safe) ==
    IF from >= to THEN <<>>
    ELSE IF from \in safe THEN UnsafeIndices(from + 1, to, safe)
    ELSE <<from>> \o UnsafeIndices(from + 1, to, safe)

(***************************************************************************)
(* The two checks that mark a signal fixed.  They are called when the      *)
(* graph is built and again by the propagation, on an edge from which the  *)
(* signals fixed so far have been taken out.                               *)
(***************************************************************************)
\* faulty variant: the LHS replaces the fixed set instead of joining it
propagate_fixed_node_in_safe_assignment_replacing(fixed_nodes, assignment) ==
    IF assignment.rhs_signals = {}
    THEN {assignment.lhs_signal}
    ELSE fixed_nodes

\* faulty variant: the test on the RHS is inverted
propagate_fixed_node_in_safe_assignment_inverted(fixed_nodes, assignment) ==
    IF assignment.rhs_signals # {}
    THEN fixed_nodes \cup {assignment.lhs_signal}
    ELSE fixed_nodes

propagate_fixed_node_in_safe_assignment(fixed_nodes, assignment) ==
    IF assignment.rhs_signals = {}
    THEN fixed_nodes \cup {assignment.lhs_signal}
    ELSE fixed_nodes

RECURSIVE apply_fixed_nodes_substitution(_, _)
apply_fixed_nodes_substitution(constraint, substitutions) ==
    IF substitutions = <<>> THEN constraint
    ELSE apply_fixed_nodes_substitution(apply_substitution(constraint, Head(substitutions)),
                                        Tail(substitutions))

\* faulty variant: the number of signals of the constraint is not looked at
propagate_fixed_node_in_unsafe_constraint_any_count(view, fixed_nodes, substitutions, unsafe_constraint) ==
    IF Cardinality(unsafe_constraint.signals) >= 1
    THEN LET signal == CHOOSE s \in unsafe_constraint.signals :
                            \A t \in unsafe_constraint.signals : t <= s
             constraint == read_constraint(view.constraint_storage,
                                           unsafe_constraint.associated_constraint)
             substituted_constraint == apply_fixed_nodes_substitution(constraint, substitutions)
         IN  IF is_linear(substituted_constraint)
                /\ Get(substituted_constraint.c, signal) # 0
             THEN fixed_nodes \cup {signal}
             ELSE fixed_nodes
    ELSE fixed_nodes

\* the check stops with a panic: the constraint has one signal and is linear,
\* and its C part does not hold the signal whose coefficient is unwrapped
propagate_fixed_node_in_unsafe_constraint_panics(view, substitutions, unsafe_constraint) ==
    /\ Cardinality(unsafe_constraint.signals) = 1
    /\ LET signal == CHOOSE s \in unsafe_constraint.signals : TRUE
           constraint == read_constraint(view.constraint_storage,
                                         unsafe_constraint.associated_constraint)
           substituted_constraint == apply_fixed_nodes_substitution(constraint, substitutions)
       IN  /\ is_linear(substituted_constraint)
           /\ signal \notin DOMAIN substituted_constraint.c

\* The result of the check where it does not panic: there the coefficient of
\* a signal the C part does not hold is read as zero.
propagate_fixed_node_in_unsafe_constraint(view, fixed_nodes, substitutions, unsafe_constraint) ==
    IF Cardinality(unsafe_constraint.signals) = 1
    THEN LET signal == CHOOSE s \in unsafe_constraint.signals : TRUE
             constraint == read_constraint(view.constraint_storage,
                                           unsafe_constraint.associated_constraint)
             substituted_constraint == apply_fixed_nodes_substitution(constraint, substitutions)
         IN  IF is_linear(substituted_constraint)
                /\ Get(substituted_constraint.c, signal) # 0
             THEN fixed_nodes \cup {signal}
             ELSE fixed_nodes
    ELSE fixed_nodes

RECURSIVE SeedSafe(_, _)
SeedSafe(fixed_nodes, assignments) ==
    IF assignments = <<>> THEN fixed_nodes
    ELSE SeedSafe(propagate_fixed_node_in_safe_assignment(fixed_nodes, Head(assignments)),
                  Tail(assignments))

RECURSIVE SeedUnsafe(_, _, _)
SeedUnsafe(view, fixed_nodes, unsafe) ==
    IF unsafe = <<>> THEN fixed_nodes
    ELSE SeedUnsafe(view,
                    propagate_fixed_node_in_unsafe_constraint(view, fixed_nodes, <<>>, Head(unsafe)),
                    Tail(unsafe))

\* faulty variant: the first assignment of a signal is kept, under the index
\* after its own
incoming_safe_assignments_shifted(are_double_arrow) ==
    [s \in {are_double_arrow[i][2] : i \in DOMAIN are_double_arrow} |->
        CHOOSE i \in DOMAIN are_double_arrow : are_double_arrow[i][2] = s]

\* signal -> index of the safe assignment that defines it, counted from 0; a
\* later insertion of the same signal replaces the earlier one
incoming_safe_assignments(are_double_arrow) ==
    [s \in {are_double_arrow[i][2] : i \in DOMAIN are_double_arrow} |->
        (CHOOSE i \in DOMAIN are_double_arrow :
            /\ are_double_arrow[i][2] = s
            /\ \A j \in DOMAIN are_double_arrow : are_double_arrow[j][2] = s => j <= i) - 1]

\* signal -> indices, counted from 0, of the safe assignments whose
\* constraint holds the signal other than as LHS
outgoing_safe_assignments(constraint_storage, are_double_arrow) ==
    LET rhs(i) == take_signals(read_constraint(constraint_storage, are_double_arrow[i][1]))
                    \ {are_double_arrow[i][2]}
    IN  [s \in UNION {rhs(i) : i \in DOMAIN are_double_arrow} |->
            {i - 1 : i \in {n \in DOMAIN are_double_arrow : s \in rhs(n)}}]

\* faulty variant: a constraint is entered under its lowest signal only
edge_constraints_lowest_signal(constraint_storage, ids) ==
    LET signals(j) == take_signals(read_constraint(constraint_storage, ids[j]))
        lowest(j) == {s \in signals(j) : \A t \in signals(j) : s <= t}
    IN  [s \in UNION {lowest(j) : j \in DOMAIN ids} |->
            {j - 1 : j \in {n \in DOMAIN ids : s \in lowest(n)}}]

\* signal -> indices, counted from 0, of the unsafe constraints that hold the
\* signal; ids are the constraint indices of the unsafe constraints in order
edge_constraints(constraint_storage, ids) ==
    LET signals(j) == take_signals(read_constraint(constraint_storage, ids[j]))
    IN  [s \in UNION {signals(j) : j \in DOMAIN ids} |->
            {j - 1 : j \in {n \in DOMAIN ids : s \in signals(n)}}]

\* the construction stops with a panic
NewVerificationGraph_panics(view) ==
    LET tc == view.tree_constraints
        ids == UnsafeIndices(tc.initial_constraint,
                             tc.initial_constraint + tc.no_constraints,
                             {tc.are_double_arrow[i][1] : i \in DOMAIN tc.are_double_arrow})
    IN  \E j \in DOMAIN ids :
            propagate_fixed_node_in_unsafe_constraint_panics(
                view, <<>>, UnsafeConstraint(view.constraint_storage, ids[j]))

\* VerificationGraph::new
NewVerificationGraph(view) ==
    LET tc == view.tree_constraints
        safe == [i \in DOMAIN tc.are_double_arrow |->
                    SafeAssignment(view.constraint_storage, tc.are_double_arrow[i])]
        is_constraint_double_arrow ==
            {tc.are_double_arrow[i][1] : i \in DOMAIN tc.are_double_arrow}
        ids == UnsafeIndices(tc.initial_constraint,
                             tc.initial_constraint + tc.no_constraints,
                             is_constraint_double_arrow)
        unsafe == [j \in DOMAIN ids |-> UnsafeConstraint(view.constraint_storage, ids[j])]
    IN  [ nodes |-> NodesOf(tc),
          subcomponents |-> [k \in DOMAIN tc.subcomponents |-> SubComponent(tc.subcomponents[k])],
          incoming_safe_assignments |-> incoming_safe_assignments(tc.are_double_arrow),
          outgoing_safe_assignments |->
                outgoing_safe_assignments(view.constraint_storage, tc.are_double_arrow),
          edge_constraints |-> edge_constraints(view.constraint_storage, ids),
          safe_assignments |-> safe,
          unsafe_constraints |-> unsafe,
          substitutions |-> <<>>,
          fixed_nodes |-> SeedUnsafe(view, SeedSafe(InputSignals(tc), safe), unsafe) ]

(***************************************************************************)
(* The inputs the model draws: component trees, witnesses and, per frame,  *)
(* a list of constraints the witness satisfies.                            *)
(***************************************************************************)
\* component trees: two outputs and an intermediate; an output, an input and
\* an intermediate; a child with one input and one output; a child without
\* outputs; a child without inputs
Skeletons ==
    { TreeConstraints(0, 2, 0, 3, 1, <<>>),
      TreeConstraints(0, 1, 1, 3, 1, <<>>),
      TreeConstraints(0, 1, 0, 3, 1, <<TreeConstraints(1, 1, 1, 2, 2, <<>>)>>),
      TreeConstraints(0, 1, 1, 3, 1, <<TreeConstraints(1, 0, 1, 1, 3, <<>>)>>),
      TreeConstraints(0, 1, 0, 2, 1, <<TreeConstraints(1, 1, 0, 1, 2, <<>>)>>) }

\* the values a witness gives to a signal
WitnessValues == {0, 1}

MinusOne == FieldPrime - 1

\* x <== w[x]
DrawSafeConstant(x, w) ==
    [ rank |-> <<1, x, 0, 0>>, safe |-> TRUE, lhs |-> x,
      con |-> NewConstraint(EmptyTerm, EmptyTerm, NumberTerm(w[x]) @@ (x :> MinusOne)) ]

\* x <== y
DrawSafeCopy(x, y) ==
    [ rank |-> <<2, x, y, 0>>, safe |-> TRUE, lhs |-> x,
      con |-> NewConstraint(EmptyTerm, EmptyTerm, (y :> 1) @@ (x :> MinusOne)) ]

\* x <== y * z
DrawSafeProduct(x, y, z) ==
    [ rank |-> <<3, x, y, z>>, safe |-> TRUE, lhs |-> x,
      con |-> NewConstraint((y :> 1), (z :> 1), (x :> MinusOne)) ]

\* k*x === k*w[x]
DrawLinear(x, k, w) ==
    [ rank |-> <<4, x, k, 0>>, safe |-> FALSE, lhs |-> 0,
      con |-> NewConstraint(EmptyTerm, EmptyTerm,
                            NumberTerm(FieldPrime - ((k * w[x]) % FieldPrime)) @@ (x :> k)) ]

\* x * (x - 1) === 0
DrawBinary(x) ==
    [ rank |-> <<5, x, 0, 0>>, safe |-> FALSE, lhs |-> 0,
      con |-> NewConstraint((x :> 1), (x :> 1) @@ (constant_coefficient :> MinusOne), EmptyTerm) ]

\* x === y
DrawEqual(x, y) ==
    [ rank |-> <<6, x, y, 0>>, safe |-> FALSE, lhs |-> 0,
      con |-> NewConstraint(EmptyTerm, EmptyTerm, (x :> 1) @@ (y :> MinusOne)) ]

\* x * y === 0
DrawProductZero(x, y) ==
    [ rank |-> <<7, x, y, 0>>, safe |-> FALSE, lhs |-> 0,
      con |-> NewConstraint((x :> 1), (y :> 1), EmptyTerm) ]

\* the signals a constraint of the frame may mention, and those a safe
\* assignment of the frame may define
VisibleSignals(tc) == DOMAIN NodesOf(tc)

AssignableSignals(tc) ==
    (OutputSignals(tc) \cup IntermediateSignals(tc)
        \cup UNION {InputSignals(tc.subcomponents[k]) : k \in DOMAIN tc.subcomponents})
    \ UNION {OutputSignals(tc.subcomponents[k]) : k \in DOMAIN tc.subcomponents}

Catalogue(tc, w) ==
    LET V == VisibleSignals(tc)
        L == AssignableSignals(tc)
    IN  {DrawSafeConstant(x, w) : x \in L}
        \cup {DrawSafeCopy(x, y) : x \in L, y \in V}
        \cup {DrawSafeProduct(x, y, z) : x \in L, y \in V, z \in V}
        \cup {DrawLinear(x, MinusOne, w) : x \in V}
        \cup {DrawBinary(x) : x \in V}
        \cup {DrawEqual(x, y) : x \in V, y \in V}
        \cup {DrawProductZero(x, y) : x \in V, y \in V}

\* the entries a circuit compiler can emit for this witness
WellFormed(e, w) ==
    /\ e.rank[1] \in {2, 6, 7} => e.rank[2] # e.rank[3]
    /\ e.rank[1] \in {6, 7} => e.rank[2] < e.rank[3]
    /\ e.rank[1] = 3 => e.rank[3] < e.rank[4] /\ e.rank[2] \notin {e.rank[3], e.rank[4]}
    /\ Satisfies(e.con, w)

RankLess(r1, r2) ==
    \E i \in 1 .. 4 : r1[i] < r2[i] /\ \A j \in 1 .. (i - 1) : r1[j] = r2[j]

RECURSIVE SortByRank(_)
SortByRank(entries) ==
    IF entries = {} THEN <<>>
    ELSE LET first == CHOOSE e \in entries : \A f \in entries \ {e} : RankLess(e.rank, f.rank)
         IN  <<first>> \o SortByRank(entries \ {first})

\* the subsets of pool of at most n elements
RECURSIVE SubsetsUpTo(_, _)
SubsetsUpTo(pool, n) ==
    IF n = 0 THEN {{}}
    ELSE LET smaller == SubsetsUpTo(pool, n - 1)
         IN  smaller \cup {T \cup {e} : T \in smaller, e \in pool}

\* constraint lists of at most n entries, no signal assigned twice
Draws(tc, w, n) ==
    LET pool == {e \in Catalogue(tc, w) : WellFormed(e, w)}
    IN  { SortByRank(S) : S \in { T \in SubsetsUpTo(pool, n) :
            \A e \in T, f \in T : (e.safe /\ f.safe /\ e.lhs = f.lhs) => e = f } }

\* the double arrows among the entries stored from constraint index first on
RECURSIVE DoubleArrows(_, _)
DoubleArrows(entries, first) ==
    IF entries = <<>> THEN <<>>
    ELSE (IF Head(entries).safe THEN << <<first, Head(entries).lhs>> >> ELSE <<>>)
         \o DoubleArrows(Tail(entries), first + 1)

\* the context with the constraints of the frame at path read in
ReadConstraints(c, path, entries) ==
    LET first == Len(c.constraint_storage)
        tc == [TreeAt(c.tree, path) EXCEPT
                    !.initial_constraint = first,
                    !.no_constraints = Len(entries),
                    !.are_double_arrow = DoubleArrows(entries, first)]
    IN  [c EXCEPT !.tree = SetTreeAt(c.tree, path, tc),
                  !.constraint_storage = @ \o [i \in DOMAIN entries |-> entries[i].con]]

(***************************************************************************)
(* State of a frame under verification: its graph, the children it has     *)
(* activated, where its verification stands, and the verdicts its          *)
(* children returned.                                                      *)
(***************************************************************************)
None == "none"

\* faulty variant: the frame starts with a substitution it did not record
NewFrame_with_stale_substitution(view) ==
    [NewVerificationGraph(view) EXCEPT
        !.substitutions = <<Substitution(view.tree_constraints.initial_signal, EmptyTerm)>>]
    @@ [ activated |-> {}, status |-> "built", safety_subcomponents |-> <<>>,
         verdict |-> [kind |-> None] ]

NewFrame(view) ==
    NewVerificationGraph(view)
    @@ [ activated |-> {}, status |-> "built", safety_subcomponents |-> <<>>,
         verdict |-> [kind |-> None] ]

Top == cur[Len(cur)]

TopFrame == frames[Top]

TopView == InputDataContextView(ctx, Top)

\* what propagation can change in a frame
PropagationState(g) ==
    [ fixed |-> g.fixed_nodes,
      safe_active |-> [i \in DOMAIN g.safe_assignments |-> g.safe_assignments[i].active],
      unsafe_active |-> [j \in DOMAIN g.unsafe_constraints |-> g.unsafe_constraints[j].active],
      substitutions |-> g.substitutions,
      not_yet_fixed_inputs |-> [k \in DOMAIN g.subcomponents |->
                                    g.subcomponents[k].not_yet_fixed_inputs],
      activated |-> g.activated ]

ActiveSafe(g) == {i \in DOMAIN g.safe_assignments : g.safe_assignments[i].active}

ActiveUnsafe(g) == {j \in DOMAIN g.unsafe_constraints : g.unsafe_constraints[j].active}

(***************************************************************************)
(* Fixed-signal propagation.                                               *)
(***************************************************************************)
\* a fixed signal is no longer awaited by the child it is an input of
RemoveFixedInputs(g) ==
    [g EXCEPT !.subcomponents =
        [k \in DOMAIN @ |-> [@[k] EXCEPT !.not_yet_fixed_inputs = @ \ g.fixed_nodes]]]

\* the substitutions of the fixed signals by their witness values, ascending,
\* followed by the substitutions the frame recorded
RECURSIVE WitnessSubstitutions(_, _)
WitnessSubstitutions(signals, w) ==
    IF signals = {} THEN <<>>
    ELSE LET s == CHOOSE x \in signals : \A y \in signals : x <= y
         IN  <<Substitution(s, NumberTerm(w[s]))>> \o WitnessSubstitutions(signals \ {s}, w)

FixedSubstitutions(view, g) ==
    WitnessSubstitutions(g.fixed_nodes, view.witness) \o g.substitutions

\* an edge as the propagation sees it: without the signals fixed so far
ReducedSafeAssignment(g, i) ==
    [g.safe_assignments[i] EXCEPT !.rhs_signals = @ \ g.fixed_nodes]

ReducedUnsafeConstraint(g, j) ==
    [g.unsafe_constraints[j] EXCEPT !.signals = @ \ g.fixed_nodes]

\* rule 1 applies to safe assignment i
CanFire(g, i) ==
    /\ g.safe_assignments[i].active
    /\ g.safe_assignments[i].rhs_signals \subseteq g.fixed_nodes

\* faulty variant: a child already activated is activated again
CanActivate_again(g, k) ==
    g.subcomponents[k].not_yet_fixed_inputs = {}

\* rule 3 applies to child k
CanActivate(g, k) ==
    /\ k \notin g.activated
    /\ g.subcomponents[k].not_yet_fixed_inputs = {}

\* rule 2 applies to unsafe constraint j
CanLinearise(view, g, j) ==
    /\ g.unsafe_constraints[j].active
    /\ propagate_fixed_node_in_unsafe_constraint(
            view, g.fixed_nodes, FixedSubstitutions(view, g), ReducedUnsafeConstraint(g, j))
       # g.fixed_nodes

\* faulty variant: the safe assignments are not looked at before the other rules
SomeCanFire_unseen(g) == FALSE

SomeCanFire(g) == \E i \in DOMAIN g.safe_assignments : CanFire(g, i)

SomeCanActivate(g) == \E k \in DOMAIN g.subcomponents : CanActivate(g, k)

SomeCanLinearise(view, g) == \E j \in DOMAIN g.unsafe_constraints : CanLinearise(view, g, j)

\* the inverse of a non-zero field element
Inverse(k) == CHOOSE i \in 1 .. (FieldPrime - 1) : (i * k) % FieldPrime = 1

\* the value the reduced constraint k*s + c0 = 0 gives to s
SolvedValue(con, s) ==
    NumberTerm((FieldPrime - Get(con.c, constant_coefficient)) * Inverse(Get(con.c, s)))

\* faulty variant: the fired assignment gives up its RHS signals
FireSafeAssignment_consuming(g, i) ==
    RemoveFixedInputs(
        [g EXCEPT !.fixed_nodes =
                    propagate_fixed_node_in_safe_assignment(@, ReducedSafeAssignment(g, i)),
                  !.safe_assignments[i] = [ReducedSafeAssignment(g, i) EXCEPT !.active = FALSE]])

FireSafeAssignment(g, i) ==
    RemoveFixedInputs(
        [g EXCEPT !.fixed_nodes =
                    propagate_fixed_node_in_safe_assignment(@, ReducedSafeAssignment(g, i)),
                  !.safe_assignments[i].active = FALSE])

\* faulty variant: the activation is not recorded
ActivateSubComponent_unrecorded(g, k) ==
    RemoveFixedInputs([g EXCEPT !.fixed_nodes = @ \cup g.subcomponents[k].output_signals])

ActivateSubComponent(g, k) ==
    RemoveFixedInputs(
        [g EXCEPT !.fixed_nodes = @ \cup g.subcomponents[k].output_signals,
                  !.activated = @ \cup {k}])

\* faulty variant: the edge stays active and no substitution is recorded
\* a variant of rule 2 in which only the active unsafe constraint of lowest
\* index fixes its signal: any other one is dropped without fixing anything
LineariseUnsafeConstraint_lowest_fixes(view, g, j) ==
    IF \A k \in DOMAIN g.unsafe_constraints : g.unsafe_constraints[k].active => j <= k
    THEN LET subs == FixedSubstitutions(view, g)
             edge == ReducedUnsafeConstraint(g, j)
         IN  RemoveFixedInputs(
                [g EXCEPT !.fixed_nodes =
                            propagate_fixed_node_in_unsafe_constraint(view, @, subs, edge),
                          !.unsafe_constraints[j].active = FALSE])
    ELSE [g EXCEPT !.unsafe_constraints[j].active = FALSE]

LineariseUnsafeConstraint_keeping_edge(view, g, j) ==
    RemoveFixedInputs(
        [g EXCEPT !.fixed_nodes =
                    propagate_fixed_node_in_unsafe_constraint(
                        view, @, FixedSubstitutions(view, g), ReducedUnsafeConstraint(g, j))])

LineariseUnsafeConstraint(view, g, j) ==
    LET subs == FixedSubstitutions(view, g)
        edge == ReducedUnsafeConstraint(g, j)
        s == CHOOSE x \in edge.signals : TRUE
        reduced == apply_fixed_nodes_substitution(
                        read_constraint(view.constraint_storage, edge.associated_constraint), subs)
    IN  RemoveFixedInputs(
            [g EXCEPT !.fixed_nodes =
                        propagate_fixed_node_in_unsafe_constraint(view, @, subs, edge),
                      !.substitutions = Append(@, Substitution(s, SolvedValue(reduced, s))),
                      !.unsafe_constraints[j].active = FALSE])

\* entry into the propagation loop
StartPropagation ==
    /\ phase = "verify"
    /\ TopFrame.status = "built"
    /\ frames' = [frames EXCEPT ![Top] = [RemoveFixedInputs(@) EXCEPT !.status = "propagating"]]
    /\ UNCHANGED <<ctx, cur, pol_queue, result, phase, hist>>

\* rule 1
SafeAssignmentFiring ==
    /\ phase = "verify"
    /\ TopFrame.status = "propagating"
    /\ \E i \in DOMAIN TopFrame.safe_assignments :
        /\ CanFire(TopFrame, i)
        /\ frames' = [frames EXCEPT ![Top] = FireSafeAssignment(@, i)]
    /\ UNCHANGED <<ctx, cur, pol_queue, result, phase, hist>>

\* rule 3: the child is activated and its verification starts; its
\* constraints are read when its graph is built
SubComponentDescent ==
    /\ phase = "verify"
    /\ TopFrame.status = "propagating"
    /\ ~SomeCanFire(TopFrame)
    /\ \E k \in DOMAIN TopFrame.subcomponents :
        /\ CanActivate(TopFrame, k)
        /\ LET child == Append(Top, k)
           IN  \E entries \in Draws(TreeAt(ctx.tree, child), ctx.witness, MaxConstraints - 1) :
                LET c == ReadConstraints(ctx, child, entries)
                IN  /\ ctx' = c
                    /\ frames' = [frames EXCEPT ![Top] = ActivateSubComponent(@, k)]
                                 @@ (child :> NewFrame(InputDataContextView(c, child)))
                    /\ cur' = Append(cur, child)
                    /\ hist' = [hist EXCEPT !.verified = Append(@, child)]
    /\ UNCHANGED <<pol_queue, result, phase>>

\* rule 2
UnsafeConstraintLinearisation ==
    /\ phase = "verify"
    /\ TopFrame.status = "propagating"
    /\ ~SomeCanFire(TopFrame)
    /\ ~SomeCanActivate(TopFrame)
    /\ \E j \in DOMAIN TopFrame.unsafe_constraints :
        /\ CanLinearise(TopView, TopFrame, j)
        /\ frames' = [frames EXCEPT ![Top] = LineariseUnsafeConstraint(TopView, @, j)]
    /\ UNCHANGED <<ctx, cur, pol_queue, result, phase, hist>>

\* no rule applies: the loop ends
StopPropagation ==
    /\ phase = "verify"
    /\ TopFrame.status = "propagating"
    /\ ~SomeCanFire(TopFrame)
    /\ ~SomeCanActivate(TopFrame)
    /\ ~SomeCanLinearise(TopView, TopFrame)
    /\ frames' = [frames EXCEPT ![Top].status = "fixpoint"]
    /\ hist' = [hist EXCEPT !.snapshot =
                    IF Top \in DOMAIN @ THEN @ ELSE @ @@ (Top :> PropagationState(TopFrame))]
    /\ UNCHANGED <<ctx, cur, pol_queue, result, phase>>

\* propagation is run again on a frame that reached its fixpoint
RerunPropagation ==
    /\ phase = "verify"
    /\ TopFrame.status = "fixpoint"
    /\ Len(SelectSeq(hist.reruns, LAMBDA p : p = Top)) < MaxReruns
    /\ frames' = [frames EXCEPT ![Top] = [RemoveFixedInputs(@) EXCEPT !.status = "propagating"]]
    /\ hist' = [hist EXCEPT !.reruns = Append(@, Top)]
    /\ UNCHANGED <<ctx, cur, pol_queue, result, phase>>

(***************************************************************************)
(* Extraction of the residual polynomial systems.                          *)
(***************************************************************************)
\* faulty variant: a fixed signal joins two constraints as well
Connected_through_fixed(g, j1, j2) ==
    (g.unsafe_constraints[j1].signals \cap g.unsafe_constraints[j2].signals) # {}

\* two active unsafe constraints are connected if they share an unfixed signal
Connected(g, j1, j2) ==
    ((g.unsafe_constraints[j1].signals \cap g.unsafe_constraints[j2].signals)
        \ g.fixed_nodes) # {}

RECURSIVE ConnectedClosure(_, _)
ConnectedClosure(g, members) ==
    LET more == {j \in ActiveUnsafe(g) : \E m \in members : Connected(g, m, j)}
    IN  IF more \subseteq members THEN members
        ELSE ConnectedClosure(g, members \cup more)

ConnectedComponents(g) == {ConnectedClosure(g, {j}) : j \in ActiveUnsafe(g)}

RECURSIVE AscendingSeq(_)
AscendingSeq(numbers) ==
    IF numbers = {} THEN <<>>
    ELSE LET n == CHOOSE x \in numbers : \A y \in numbers : x <= y
         IN  <<n>> \o AscendingSeq(numbers \ {n})

Minimum(numbers) == CHOOSE x \in numbers : \A y \in numbers : x <= y

RECURSIVE ComponentsInOrder(_)
ComponentsInOrder(components) ==
    IF components = {} THEN <<>>
    ELSE LET first == CHOOSE c \in components :
                        \A d \in components : Minimum(c) <= Minimum(d)
         IN  <<first>> \o ComponentsInOrder(components \ {first})

PolynomialSystemFixedSignal(view, g, component, name) ==
    LET ids == AscendingSeq(component)
        touched == UNION {g.unsafe_constraints[j].signals : j \in component}
        ports == UNION {g.subcomponents[k].output_signals : k \in g.activated}
    IN  [ constraints |-> [n \in DOMAIN ids |->
                apply_fixed_nodes_substitution(
                    read_constraint(view.constraint_storage,
                                    g.unsafe_constraints[ids[n]].associated_constraint),
                    FixedSubstitutions(view, g))],
          signals_to_fix |-> ((OutputSignals(view.tree_constraints) \ g.fixed_nodes) \cap touched)
                             \cup (ports \cap touched),
          component_name |-> name ]

PolynomialSystems(view, g, name) ==
    LET comps == ComponentsInOrder(ConnectedComponents(g))
    IN  [n \in DOMAIN comps |-> PolynomialSystemFixedSignal(view, g, comps[n], name)]

(***************************************************************************)
(* The verdict of a frame whose propagation has stopped.                   *)
(***************************************************************************)
ModuleUnsafe(names, name) ==
    [ kind |-> "ModuleUnsafe", unfixed_outputs |-> names, subcomponent_name |-> name ]

ModuleConditionallySafe(subs, systems, name) ==
    [ kind |-> "ModuleConditionallySafe", subcomponents |-> subs, pol_systems |-> systems,
      subcomponent_name |-> name ]

Exception(name) ==
    [ kind |-> "Exception", subcomponent_name |-> name ]

UnfixedOutputs(view, g) == OutputSignals(view.tree_constraints) \ g.fixed_nodes

UnfixedOutputNames(view, g) ==
    LET ids == AscendingSeq(UnfixedOutputs(view, g))
    IN  [n \in DOMAIN ids |-> view.signal_name_map[ids[n]]]

\* some safe assignment is still active and its LHS is not fixed
DanglingSafeAssignment(g) ==
    \E i \in ActiveSafe(g) : g.safe_assignments[i].lhs_signal \notin g.fixed_nodes

\* faulty variant: the outputs are looked at before the unsafe constraints
PossibleVerdicts_outputs_first(view, g, name) ==
    IF UnfixedOutputs(view, g) # {}
    THEN { ModuleUnsafe(UnfixedOutputNames(view, g), name) }
    ELSE IF ActiveUnsafe(g) # {}
    THEN { ModuleConditionallySafe(g.safety_subcomponents, PolynomialSystems(view, g, name), name),
           Exception(name) }
    ELSE { ModuleConditionallySafe(g.safety_subcomponents, <<>>, name) }

\* faulty variant: only the first component becomes an obligation
PossibleVerdicts_first_component_only(view, g, name) ==
    IF ActiveUnsafe(g) # {}
    THEN { ModuleConditionallySafe(g.safety_subcomponents,
                                   SubSeq(PolynomialSystems(view, g, name), 1, 1), name),
           Exception(name) }
    ELSE IF UnfixedOutputs(view, g) # {}
    THEN { ModuleUnsafe(UnfixedOutputNames(view, g), name) }
    ELSE { ModuleConditionallySafe(g.safety_subcomponents, <<>>, name) }

\* The verdicts the frame can return.  With unsafe constraints left, the
\* extractor either forms one system per connected component or reports that
\* it found no component it can orient.  With none left, all outputs fixed
\* and a safe assignment with unfixed LHS still active, no outcome is laid
\* down: every kind of verdict is possible.
PossibleVerdicts(view, g, name) ==
    IF ActiveUnsafe(g) # {}
    THEN { ModuleConditionallySafe(g.safety_subcomponents, PolynomialSystems(view, g, name), name),
           Exception(name) }
    ELSE IF UnfixedOutputs(view, g) # {}
    THEN { ModuleUnsafe(UnfixedOutputNames(view, g), name) }
    ELSE IF ~DanglingSafeAssignment(g)
    THEN { ModuleConditionallySafe(g.safety_subcomponents, <<>>, name) }
    ELSE { ModuleConditionallySafe(g.safety_subcomponents, <<>>, name),
           ModuleUnsafe(<<>>, name),
           Exception(name) }

\* the frame returns its verdict to the frame that descended into it
ConcludeFrame ==
    /\ phase = "verify"
    /\ TopFrame.status = "fixpoint"
    /\ \E v \in PossibleVerdicts(TopView, TopFrame, Top) :
        frames' = IF Len(cur) = 1
                  THEN [frames EXCEPT ![Top].status = "done", ![Top].verdict = v]
                  ELSE [frames EXCEPT ![Top].status = "done", ![Top].verdict = v,
                                      ![cur[Len(cur) - 1]].safety_subcomponents = Append(@, v)]
    /\ cur' = SubSeq(cur, 1, Len(cur) - 1)
    /\ phase' = IF Len(cur) = 1 THEN "flatten" ELSE phase
    /\ UNCHANGED <<ctx, pol_queue, result, hist>>

(***************************************************************************)
(* Roll-up of the verdict tree: verify.                                    *)
(***************************************************************************)
RECURSIVE Concat(_)
Concat(seqs) == IF seqs = <<>> THEN <<>> ELSE Head(seqs) \o Concat(Tail(seqs))

\* faulty variant: the children of a conditionally safe node are not visited
apply_without_recursion(v) == <<v>>

\* faulty variant: the children are visited before the node
RECURSIVE apply_children_first(_)
apply_children_first(v) ==
    (IF v.kind = "ModuleConditionallySafe"
     THEN Concat([n \in DOMAIN v.subcomponents |-> apply_children_first(v.subcomponents[n])])
     ELSE <<>>) \o <<v>>

\* the nodes SubComponentVerificationResult::apply visits, in order
RECURSIVE apply(_)
apply(v) ==
    <<v>> \o (IF v.kind = "ModuleConditionallySafe"
              THEN Concat([n \in DOMAIN v.subcomponents |-> apply(v.subcomponents[n])])
              ELSE <<>>)

\* faulty variant: the exceptions are not counted
flatten_verification_result_counting_unsafe_only(verification_result) ==
    LET visited == apply(verification_result)
        num_unsafe_found == Len(SelectSeq(visited, LAMBDA v : v.kind = "ModuleUnsafe"))
        polynomial_systems_to_prove ==
            Concat([n \in DOMAIN visited |->
                        IF visited[n].kind = "ModuleConditionallySafe"
                        THEN visited[n].pol_systems ELSE <<>>])
    IN  IF num_unsafe_found = 0
        THEN [some |-> TRUE, pol_systems |-> polynomial_systems_to_prove]
        ELSE [some |-> FALSE, pol_systems |-> <<>>]

\* the error message of a node, none for a conditionally safe one
get_error_string(v) ==
    IF v.kind = "ModuleConditionallySafe" THEN <<>>
    ELSE << [kind |-> v.kind, subcomponent_name |-> v.subcomponent_name] >>

\* what the function returns (some, pol_systems) and what it prints: the
\* error messages in the order of the visits and the two counts
flatten_verification_result_and_report_errors(verification_result) ==
    LET visited == apply(verification_result)
        num_unsafe_found == Len(SelectSeq(visited, LAMBDA v : v.kind = "ModuleUnsafe"))
        num_exceptions_found == Len(SelectSeq(visited, LAMBDA v : v.kind = "Exception"))
        polynomial_systems_to_prove ==
            Concat([n \in DOMAIN visited |->
                        IF visited[n].kind = "ModuleConditionallySafe"
                        THEN visited[n].pol_systems ELSE <<>>])
        printed == [ errors |-> Concat([n \in DOMAIN visited |-> get_error_string(visited[n])]),
                     num_unsafe_found |-> num_unsafe_found,
                     num_exceptions_found |-> num_exceptions_found ]
    IN  IF num_unsafe_found + num_exceptions_found = 0
        THEN [some |-> TRUE, pol_systems |-> polynomial_systems_to_prove] @@ printed
        ELSE [some |-> FALSE, pol_systems |-> <<>>] @@ printed

\* the characters of the lines the interpreter prints and the driver reads
OkPrefix == <<"O", "K", ":", " ">>

ErrorPrefix == <<"E", "R", "R", "O", "R", ":", " ">>

TimeoutPrefix == <<"T", "I", "M", "E", "O", "U", "T", ":", " ">>

FinishedLine == <<"F", "I", "N", "I", "S", "H", "E", "D">>

Digits == <<"0", "1", "2", "3", "4", "5", "6", "7", "8", "9">>

IsDigit(c) == \E k \in DOMAIN Digits : Digits[k] = c

DigitValue(c) == (CHOOSE k \in DOMAIN Digits : Digits[k] = c) - 1

\* the decimal digits of a usize, as {pol_system_idx} is formatted
RECURSIVE to_string(_)
to_string(n) ==
    IF n < 10 THEN <<Digits[n + 1]>> ELSE Append(to_string(n \div 10), Digits[(n % 10) + 1])

RECURSIVE DecimalValue(_)
DecimalValue(digits) ==
    IF digits = <<>> THEN 0
    ELSE 10 * DecimalValue(SubSeq(digits, 1, Len(digits) - 1)) + DigitValue(digits[Len(digits)])

\* str::parse::<usize>: an optional plus sign, then one or more decimal digits
parse(num_str) ==
    LET digits == IF num_str # <<>> /\ Head(num_str) = "+" THEN Tail(num_str) ELSE num_str
    IN  IF digits # <<>> /\ \A k \in DOMAIN digits : IsDigit(digits[k])
        THEN [ok |-> TRUE, num |-> DecimalValue(digits)]
        ELSE [ok |-> FALSE, num |-> 0]

strip_prefix(line, prefix) ==
    IF Len(line) >= Len(prefix) /\ SubSeq(line, 1, Len(prefix)) = prefix
    THEN [some |-> TRUE, rest |-> SubSeq(line, Len(prefix) + 1, Len(line))]
    ELSE [some |-> FALSE, rest |-> <<>>]

\* what the interpreter prints when it runs the emitted script on obligations
\* with the given outcomes: the block of obligation i prints its status
\* line, and leaves the interpreter (exit) after ERROR; FINISHED comes last
RECURSIVE ScriptOutput(_, _)
ScriptOutput(outcomes, i) ==
    IF i > Len(outcomes) THEN << FinishedLine >>
    ELSE IF outcomes[i] = "ERROR" THEN << ErrorPrefix \o to_string(i - 1) >>
    ELSE << (IF outcomes[i] = "OK" THEN OkPrefix ELSE TimeoutPrefix) \o to_string(i - 1) >>
         \o ScriptOutput(outcomes, i + 1)

\* the state of the loop of verify_pol_systems before the first line
NewDriver == [ vec_timed_outs |-> <<>>, vec_many_solutions |-> <<>>, ret |-> "running" ]

\* faulty variant: an ERROR line is not recorded
read_line_dropping_errors(d, line, pol_systems_len) ==
    IF strip_prefix(line, OkPrefix).some \/ strip_prefix(line, ErrorPrefix).some
    THEN d
    ELSE IF strip_prefix(line, TimeoutPrefix).some
    THEN [d EXCEPT !.vec_timed_outs = Append(@, parse(strip_prefix(line, TimeoutPrefix).rest).num)]
    ELSE IF line = FinishedLine
    THEN [d EXCEPT !.ret = IF d.vec_timed_outs = <<>> THEN "true" ELSE "false"]
    ELSE [d EXCEPT !.ret = "panic"]

\* one iteration of the loop of verify_pol_systems: ret is "true" or "false"
\* for Ok(true) and Ok(false), "error" for the Err of a failed parse,
\* "panic" for unreachable!() and for an index out of the bounds of
\* pol_systems in display_unverified_modules
read_line(d, line, pol_systems_len) ==
    LET ok == strip_prefix(line, OkPrefix)
        error == strip_prefix(line, ErrorPrefix)
        timeout == strip_prefix(line, TimeoutPrefix)
        in_bounds(indices) == \A k \in DOMAIN indices : indices[k] < pol_systems_len
    IN  IF ok.some
        THEN IF parse(ok.rest).ok THEN d ELSE [d EXCEPT !.ret = "error"]
        ELSE IF error.some
        THEN IF parse(error.rest).ok
             THEN [d EXCEPT !.vec_many_solutions = Append(@, parse(error.rest).num)]
             ELSE [d EXCEPT !.ret = "error"]
        ELSE IF timeout.some
        THEN IF parse(timeout.rest).ok
             THEN [d EXCEPT !.vec_timed_outs = Append(@, parse(timeout.rest).num)]
             ELSE [d EXCEPT !.ret = "error"]
        ELSE IF line = FinishedLine
        THEN IF d.vec_timed_outs = <<>> /\ d.vec_many_solutions = <<>>
             THEN [d EXCEPT !.ret = "true"]
             ELSE IF in_bounds(d.vec_many_solutions) /\ in_bounds(d.vec_timed_outs)
             THEN [d EXCEPT !.ret = "false"]
             ELSE [d EXCEPT !.ret = "panic"]
        ELSE [d EXCEPT !.ret = "panic"]

\* the loop of verify_pol_systems over the lines of the interpreter; the end
\* of the stream without a return reaches unreachable!()
RECURSIVE ReadLines(_, _, _)
ReadLines(lines, d, pol_systems_len) ==
    IF d.ret # "running" THEN d.ret
    ELSE IF lines = <<>> THEN "panic"
    ELSE ReadLines(Tail(lines), read_line(d, Head(lines), pol_systems_len), pol_systems_len)

verify_pol_systems(found, pol_systems_len, lines) ==
    IF ~found THEN "false" ELSE ReadLines(lines, NewDriver, pol_systems_len)

\* verify, from the verdict of the root frame to the call of the CAS driver
FlattenVerdictTree ==
    /\ phase = "flatten"
    /\ LET maybe_pol_systems ==
            flatten_verification_result_and_report_errors(frames[<<>>].verdict)
       IN  /\ pol_queue' = maybe_pol_systems
           /\ IF ~maybe_pol_systems.some
              THEN result' = "false" /\ phase' = "finished"
              ELSE IF maybe_pol_systems.pol_systems = <<>>
              THEN result' = "true" /\ phase' = "finished"
              ELSE result' = result /\ phase' = "cas"
    /\ UNCHANGED <<ctx, frames, cur, hist>>

\* verify, the call of the CAS driver on a non-empty batch
VerifyPolSystems ==
    /\ phase = "cas"
    /\ \E found \in BOOLEAN :
       \E outcomes \in [DOMAIN pol_queue.pol_systems -> {"OK", "ERROR", "TIMEOUT"}] :
            /\ result' = verify_pol_systems(found, Len(pol_queue.pol_systems),
                                             ScriptOutput(outcomes, 1))
            /\ hist' = [hist EXCEPT !.cas = result',
                                    !.spawned = IF found THEN @ + 1 ELSE @]
    /\ phase' = "finished"
    /\ UNCHANGED <<ctx, frames, cur, pol_queue>>

(***************************************************************************)
(* The specification.                                                      *)
(***************************************************************************)
Init ==
    \E tree \in Skeletons :
    \E w \in [1 .. tree.number_signals -> WitnessValues] :
    \E entries \in Draws(tree, w, MaxConstraints) :
        LET c == ReadConstraints(
                    [ tree |-> tree, constraint_storage |-> <<>>, witness |-> w,
                      signal_name_map |-> [s \in 1 .. tree.number_signals |-> SignalName(s)] ],
                    <<>>, entries)
        IN  /\ ctx = c
            /\ frames = (<<>> :> NewFrame(InputDataContextView(c, <<>>)))
            /\ cur = << <<>> >>
            /\ phase = "verify"
            /\ pol_queue = [some |-> FALSE, pol_systems |-> <<>>]
            /\ result = None
            /\ hist = [ snapshot |-> <<>>, reruns |-> <<>>, verified |-> <<>>, cas |-> None,
                       spawned |-> 0 ]

Next ==
    \/ StartPropagation
    \/ SafeAssignmentFiring
    \/ SubComponentDescent
    \/ UnsafeConstraintLinearisation
    \/ StopPropagation
    \/ RerunPropagation
    \/ ConcludeFrame
    \/ FlattenVerdictTree
    \/ VerifyPolSystems

Spec == Init /\ [][Next]_vars

\* verify runs to its end: no step of it waits on anything
FairSpec == Spec /\ WF_vars(Next)

(***************************************************************************)
(* Properties of the propagation.                                          *)
(***************************************************************************)
Frames == DOMAIN frames

ActiveEdges(g) ==
    {<<"safe", i>> : i \in ActiveSafe(g)} \cup {<<"unsafe", j>> : j \in ActiveUnsafe(g)}

\* a rule of the propagation was applied to frame p in this step
RuleApplied(p) ==
    /\ frames[p].status = "propagating"
    /\ PropagationState(frames'[p]) # PropagationState(frames[p])

\* C1: in every step, in every frame, the fixed set only grows, an inactive
\* edge stays inactive, and the number of active edges does not increase.
C1_Monotonicity ==
    [][\A p \in Frames :
        /\ frames[p].fixed_nodes \subseteq frames'[p].fixed_nodes
        /\ ActiveEdges(frames'[p]) \subseteq ActiveEdges(frames[p])
        /\ Cardinality(ActiveEdges(frames'[p])) <= Cardinality(ActiveEdges(frames[p]))]_vars

\* a frame in which rule 1, rule 2 and rule 3 have all been applied
C1_Witness ==
    \E p \in Frames :
        /\ ActiveSafe(frames[p]) # DOMAIN frames[p].safe_assignments
        /\ ActiveUnsafe(frames[p]) # DOMAIN frames[p].unsafe_constraints
        /\ frames[p].activated # {}
        /\ frames[p].status = "fixpoint"

\* C2 as stated: every rule application strictly grows fixed or strictly
\* shrinks the set of active edges.
C2_StrictProgressOnFixedOrEdges ==
    [][\A p \in Frames : RuleApplied(p) =>
        \/ /\ frames[p].fixed_nodes \subseteq frames'[p].fixed_nodes
           /\ frames[p].fixed_nodes # frames'[p].fixed_nodes
        \/ /\ ActiveEdges(frames'[p]) \subseteq ActiveEdges(frames[p])
           /\ ActiveEdges(frames'[p]) # ActiveEdges(frames[p])]_vars

\* what is left to do in a frame: edges to deactivate and children to activate
Remaining(g) ==
    Cardinality(ActiveEdges(g)) + Cardinality((DOMAIN g.subcomponents) \ g.activated)

\* C2, amended: every rule application strictly shrinks the set of active
\* edges or activates a child that was not activated before, so the number
\* of active edges plus unactivated children, a natural number, strictly
\* decreases with every rule application and the loop stops after finitely
\* many of them.
C2_Termination ==
    [][\A p \in Frames : RuleApplied(p) =>
        /\ Remaining(frames'[p]) < Remaining(frames[p])
        /\ Remaining(frames'[p]) >= 0
        /\ \/ /\ ActiveEdges(frames'[p]) \subseteq ActiveEdges(frames[p])
              /\ ActiveEdges(frames'[p]) # ActiveEdges(frames[p])
           \/ /\ frames[p].activated \subseteq frames'[p].activated
              /\ frames[p].activated # frames'[p].activated]_vars

\* a child without output ports has been activated
C2_Witness ==
    \E p \in Frames : \E k \in frames[p].activated :
        /\ frames[p].subcomponents[k].output_signals = {}
        /\ frames[p].status = "fixpoint"

RECURSIVE NoDuplicates(_)
NoDuplicates(seq) ==
    \/ seq = <<>>
    \/ /\ \A n \in DOMAIN Tail(seq) : Tail(seq)[n] # Head(seq)
       /\ NoDuplicates(Tail(seq))

\* C3: once a frame has reached its fixpoint, running propagation again
\* leaves its fixed set, active flags, substitutions, not_yet_fixed_inputs
\* and activated children as they were, and verifies no child again.
C3_Idempotence ==
    /\ \A p \in DOMAIN hist.snapshot : PropagationState(frames[p]) = hist.snapshot[p]
    /\ NoDuplicates(hist.verified)

\* propagation was run again on a frame that had fixed a signal by rule 2 and
\* activated a child, and stopped again
C3_Witness ==
    \E p \in Frames :
        /\ \E n \in DOMAIN hist.reruns : hist.reruns[n] = p
        /\ frames[p].status = "fixpoint"
        /\ frames[p].activated # {}
        /\ frames[p].substitutions # <<>>

\* safe assignment i of frame p fires in this step
Fires(p, i) ==
    /\ frames[p].status = "propagating"
    /\ frames[p].safe_assignments[i].active
    /\ frames[p].safe_assignments[i].rhs_signals \subseteq frames[p].fixed_nodes
    /\ ~frames'[p].safe_assignments[i].active

Stopped(g) == g.status \in {"fixpoint", "done"}

\* C4: when a safe assignment fires, its LHS is fixed and its edge inactive
\* in the next state; and once propagation has stopped, every safe
\* assignment still active has an RHS signal that is not fixed.
C4_SafeAssignmentSoundness ==
    /\ [][\A p \in Frames : \A i \in DOMAIN frames[p].safe_assignments :
            Fires(p, i)
            => /\ frames[p].safe_assignments[i].lhs_signal \in frames'[p].fixed_nodes
               /\ ~frames'[p].safe_assignments[i].active]_vars
    /\ [](\A p \in Frames : Stopped(frames[p]) =>
            \A i \in ActiveSafe(frames[p]) :
                \E s \in frames[p].safe_assignments[i].rhs_signals :
                    s \notin frames[p].fixed_nodes)

\* propagation has stopped in a frame where one safe assignment has fired
\* and another one is still active
C4_Witness ==
    \E p \in Frames :
        /\ Stopped(frames[p])
        /\ \E i \in DOMAIN frames[p].safe_assignments :
            /\ ~frames[p].safe_assignments[i].active
            /\ frames[p].safe_assignments[i].lhs_signal \in frames[p].fixed_nodes
        /\ ActiveSafe(frames[p]) # {}

\* the declared inputs of a node of the component tree
DeclaredInputs(tc) ==
    {s \in 1 .. (tc.initial_signal + tc.number_signals) :
        /\ s >= tc.initial_signal + tc.number_outputs
        /\ s < tc.initial_signal + tc.number_outputs + tc.number_inputs}

DeclaredOutputs(tc) ==
    {s \in 1 .. (tc.initial_signal + tc.number_signals) :
        /\ s >= tc.initial_signal
        /\ s < tc.initial_signal + tc.number_outputs}

\* C5: from its construction on, the fixed set of every frame, root or
\* child, holds every declared input of the frame.
C5_InputDeterminism ==
    \A p \in Frames : DeclaredInputs(TreeAt(ctx.tree, p)) \subseteq frames[p].fixed_nodes

\* a child frame with an input and an output has been built
C5_Witness ==
    \E p \in Frames :
        /\ p # <<>>
        /\ TreeAt(ctx.tree, p).number_inputs > 0
        /\ TreeAt(ctx.tree, p).number_outputs > 0
        /\ frames[p].status = "built"

\* the constraints stored for the frame at path p
FrameConstraints(p) ==
    LET tc == TreeAt(ctx.tree, p)
    IN  {read_constraint(ctx.constraint_storage, id) :
            id \in tc.initial_constraint .. (tc.initial_constraint + tc.no_constraints - 1)}

FieldElements == 0 .. (FieldPrime - 1)

Assignments(p) == [DOMAIN frames[p].nodes -> FieldElements]

\* a satisfies the constraints of frame p, gives the declared inputs of the
\* frame their witness values, and every activated child determines its
\* outputs from its inputs
Admissible(p, a) ==
    LET tc == TreeAt(ctx.tree, p)
    IN  /\ \A con \in FrameConstraints(p) : Satisfies(con, a)
        /\ \A s \in DeclaredInputs(tc) : a[s] = ctx.witness[s]
        /\ \A k \in frames[p].activated :
            (\A s \in DeclaredInputs(tc.subcomponents[k]) : a[s] = ctx.witness[s])
            => (\A s \in DeclaredOutputs(tc.subcomponents[k]) : a[s] = ctx.witness[s])

\* C6: in every frame, every assignment that satisfies the frame's
\* constraints, agrees with the witness on the declared inputs and in which
\* each activated child determines its outputs from its inputs (each safe
\* assignment determining its LHS from its RHS by its own constraint) gives
\* every signal of fixed the value the witness gives it.
C6_FixedSetSoundness ==
    \A p \in Frames : \A a \in Assignments(p) :
        Admissible(p, a) => \A s \in frames[p].fixed_nodes : a[s] = ctx.witness[s]

\* rule 2 has fixed a signal in a frame whose constraints leave another
\* signal free
C6_Witness ==
    \E p \in Frames :
        /\ Stopped(frames[p])
        /\ frames[p].substitutions # <<>>
        /\ \E a \in Assignments(p) :
            /\ Admissible(p, a)
            /\ \E s \in DOMAIN frames[p].nodes : a[s] # ctx.witness[s]

\* child k of frame p is activated in this step
Activates(p, k) ==
    /\ k \notin frames[p].activated
    /\ k \in frames'[p].activated

\* C7: a child is activated, and its frame built and verified, only in a
\* step before which every declared input of the child is in the parent's
\* fixed set; after the step every output port of the child is in the
\* parent's fixed set; and a frame is built only for a child activated in
\* the same step.
C7_DescentGating ==
    [][/\ \A p \in Frames : \A k \in DOMAIN frames[p].subcomponents :
            Activates(p, k) =>
                LET child == TreeAt(ctx.tree, p).subcomponents[k]
                IN  /\ DeclaredInputs(child) \subseteq frames[p].fixed_nodes
                    /\ DeclaredOutputs(child) \subseteq frames'[p].fixed_nodes
                    /\ Append(p, k) \notin Frames
                    /\ Append(p, k) \in DOMAIN frames'
       /\ \A c \in (DOMAIN frames') \ Frames :
            /\ c # <<>>
            /\ Activates(SubSeq(c, 1, Len(c) - 1), c[Len(c)])]_vars

\* a child with an input and an output has been activated and verified
C7_Witness ==
    \E p \in Frames : \E k \in frames[p].activated :
        /\ DeclaredInputs(TreeAt(ctx.tree, p).subcomponents[k]) # {}
        /\ DeclaredOutputs(TreeAt(ctx.tree, p).subcomponents[k]) # {}
        /\ frames[Append(p, k)].status = "done"

\* the declared outputs of frame p that are not fixed
DeclaredUnfixedOutputs(p) == DeclaredOutputs(TreeAt(ctx.tree, p)) \ frames[p].fixed_nodes

\* C8: a frame whose propagation stopped with no unsafe constraint active
\* and some output not fixed returns ModuleUnsafe, naming exactly its
\* unfixed outputs, each once, and no polynomial system comes from it.
C8_UnfixedOutputsVerdict ==
    \A p \in Frames :
        (/\ frames[p].status = "done"
         /\ ActiveUnsafe(frames[p]) = {}
         /\ DeclaredUnfixedOutputs(p) # {})
        => LET v == frames[p].verdict
           IN  /\ v.kind = "ModuleUnsafe"
               /\ {v.unfixed_outputs[n] : n \in DOMAIN v.unfixed_outputs}
                    = {ctx.signal_name_map[s] : s \in DeclaredUnfixedOutputs(p)}
               /\ Len(v.unfixed_outputs) = Cardinality(DeclaredUnfixedOutputs(p))
               /\ "pol_systems" \notin DOMAIN v
               /\ \A n \in DOMAIN pol_queue.pol_systems :
                    pol_queue.pol_systems[n].component_name # p

\* a frame with a fixed and an unfixed output has returned its verdict
C8_Witness ==
    \E p \in Frames :
        /\ frames[p].status = "done"
        /\ ActiveUnsafe(frames[p]) = {}
        /\ DeclaredUnfixedOutputs(p) # {}
        /\ DeclaredUnfixedOutputs(p) # DeclaredOutputs(TreeAt(ctx.tree, p))

\* the frames whose verdicts make up the verdict tree of the root: the root,
\* and the children of every conditionally safe frame of the tree
InVerdictTree(p) ==
    \A n \in 0 .. (Len(p) - 1) :
        frames[SubSeq(p, 1, n)].verdict.kind = "ModuleConditionallySafe"

VerdictTree == {p \in Frames : InVerdictTree(p)}

\* C10: verify returns true exactly when no frame of the verdict tree is
\* ModuleUnsafe or Exception and either the tree holds no polynomial system
\* or the CAS driver returned success for the batch; and when it returns
\* true, every frame that was verified is conditionally safe.
C10_RollUp ==
    phase = "finished" =>
        /\ result = "true" <=>
            /\ \A p \in VerdictTree : frames[p].verdict.kind = "ModuleConditionallySafe"
            /\ \/ \A p \in VerdictTree : frames[p].verdict.pol_systems = <<>>
               \/ hist.cas = "true"
        /\ result = "true" =>
            \A p \in Frames : frames[p].verdict.kind = "ModuleConditionallySafe"

\* verify has returned true for a tree with a verified child and a
\* polynomial system
C10_Witness ==
    /\ phase = "finished"
    /\ result = "true"
    /\ \E p \in Frames : p # <<>>
    /\ pol_queue.pol_systems # <<>>

\* some frame of the verdict tree is ModuleUnsafe or Exception
FindingInVerdictTree ==
    \E p \in VerdictTree : frames[p].verdict.kind \in {"ModuleUnsafe", "Exception"}

\* the number of polynomial systems held by the verdict tree
RECURSIVE CountSystems(_)
CountSystems(paths) ==
    IF paths = {} THEN 0
    ELSE LET p == CHOOSE q \in paths : TRUE
         IN  (IF frames[p].verdict.kind = "ModuleConditionallySafe"
              THEN Len(frames[p].verdict.pol_systems) ELSE 0)
             + CountSystems(paths \ {p})

\* C11: the CAS interpreter is spawned at most once in a run; when it has
\* been spawned, every frame has returned its verdict, the verdict tree was
\* traversed without finding a ModuleUnsafe or Exception node and holds at
\* least one polynomial system; a run that ends with such a node in the tree,
\* or with no polynomial system, has not spawned it.
C11_CasInvocationOrdering ==
    /\ hist.spawned <= 1
    /\ hist.spawned = 1 =>
        /\ phase = "finished"
        /\ \A p \in Frames : frames[p].status = "done"
        /\ ~FindingInVerdictTree
        /\ CountSystems(VerdictTree) >= 1
        /\ Len(pol_queue.pol_systems) = CountSystems(VerdictTree)
    /\ (phase = "finished" /\ (FindingInVerdictTree \/ CountSystems(VerdictTree) = 0))
        => hist.spawned = 0

\* the CAS was spawned in a run whose verdict tree has two frames
C11_Witness ==
    /\ hist.spawned = 1
    /\ Cardinality(VerdictTree) = 2

(***************************************************************************)
(* The traversal of verdict trees of any shape: the verdict of the root is *)
(* drawn, flatten_verification_result_and_report_errors is applied to it.  *)
(***************************************************************************)
MaxChildren == 2

MaxSystems == 1

\* sequences over S of length at most n
RECURSIVE SeqsUpTo(_, _)
SeqsUpTo(S, n) ==
    IF n = 0 THEN {<<>>}
    ELSE LET shorter == SeqsUpTo(S, n - 1)
         IN  shorter \cup {Append(q, e) : q \in {r \in shorter : Len(r) = n - 1}, e \in S}

\* a polynomial system, told from the others by its component and its rank
DrawSystem(name, k) ==
    [ constraints |-> <<>>, signals_to_fix |-> {k}, component_name |-> name ]

\* the verdicts of a component called name: unsafe, exception, or
\* conditionally safe on at most MaxSystems systems and on the children drawn
DrawVerdicts(name, children) ==
    { ModuleUnsafe(<<SignalName(1)>>, name), Exception(name) }
    \cup { ModuleConditionallySafe(subs, [k \in 1 .. n |-> DrawSystem(name, k)], name) :
            subs \in children, n \in 0 .. MaxSystems }

\* every choice of one element per position
RECURSIVE Products(_)
Products(sets) ==
    IF sets = <<>> THEN {<<>>}
    ELSE {<<h>> \o t : h \in Head(sets), t \in Products(Tail(sets))}

\* trees of three levels: up to MaxChildren children, each with at most one child
DrawVerdictTrees ==
    LET leaf(name) == DrawVerdicts(name, {<<>>})
        mid(name) == DrawVerdicts(name,
                        {<<>>} \cup {<<v>> : v \in leaf(Append(name, 1))})
        kids(n) == Products([k \in 1 .. n |-> mid(<<k>>)])
    IN  DrawVerdicts(<<>>, UNION {kids(n) : n \in 0 .. MaxChildren})

FlattenInit ==
    \E v \in DrawVerdictTrees :
        /\ frames = (<<>> :> [status |-> "done", verdict |-> v])
        /\ ctx = [tree |-> TreeConstraints(0, 0, 0, 0, 1, <<>>)]
        /\ cur = <<>>
        /\ phase = "flatten"
        /\ pol_queue = [some |-> FALSE, pol_systems |-> <<>>]
        /\ result = None
        /\ hist = [ snapshot |-> <<>>, reruns |-> <<>>, verified |-> <<>>, cas |-> None,
                    spawned |-> 0 ]

FlattenSpec == FlattenInit /\ [][FlattenVerdictTree]_vars

\* the node of verdict tree v at path p
RECURSIVE NodeAt(_, _)
NodeAt(v, p) == IF p = <<>> THEN v ELSE NodeAt(v.subcomponents[Head(p)], Tail(p))

\* the paths of the nodes of v: the root, and the children of every
\* conditionally safe node
RECURSIVE TreePaths(_)
TreePaths(v) ==
    {<<>>} \cup
    (IF v.kind = "ModuleConditionallySafe"
     THEN UNION {{<<n>> \o q : q \in TreePaths(v.subcomponents[n])} : n \in DOMAIN v.subcomponents}
     ELSE {})

\* p comes before q when a node is visited before its children and the
\* children from first to last
PathBefore(p, q) ==
    \/ Len(p) < Len(q) /\ SubSeq(q, 1, Len(p)) = p
    \/ \E i \in 1 .. Len(p) :
        /\ i <= Len(q)
        /\ p[i] < q[i]
        /\ SubSeq(p, 1, i - 1) = SubSeq(q, 1, i - 1)

RECURSIVE InTraversalOrder(_)
InTraversalOrder(paths) ==
    IF paths = {} THEN <<>>
    ELSE LET first == CHOOSE p \in paths : \A q \in paths \ {p} : PathBefore(p, q)
         IN  <<first>> \o InTraversalOrder(paths \ {first})

\* C12: the traversal visits every node of the verdict tree exactly once, a
\* node before its children and the children in order; every ModuleUnsafe
\* and every Exception node is reported and counted; no list is returned
\* when one was counted; otherwise the list returned is the concatenation,
\* in traversal order, of the systems of the conditionally safe nodes.
C12_AllFindingsReported ==
    phase # "flatten" =>
        LET v == frames[<<>>].verdict
            order == InTraversalOrder(TreePaths(v))
            nodes == [n \in DOMAIN order |-> NodeAt(v, order[n])]
            findings == SelectSeq(nodes, LAMBDA x : x.kind # "ModuleConditionallySafe")
            safe == SelectSeq(nodes, LAMBDA x : x.kind = "ModuleConditionallySafe")
        IN  /\ apply(v) = nodes
            /\ [n \in DOMAIN pol_queue.errors |-> pol_queue.errors[n].subcomponent_name]
                = [n \in DOMAIN findings |-> findings[n].subcomponent_name]
            /\ pol_queue.num_unsafe_found
                = Cardinality({p \in TreePaths(v) : NodeAt(v, p).kind = "ModuleUnsafe"})
            /\ pol_queue.num_exceptions_found
                = Cardinality({p \in TreePaths(v) : NodeAt(v, p).kind = "Exception"})
            /\ pol_queue.some <=> findings = <<>>
            /\ pol_queue.some =>
                pol_queue.pol_systems = Concat([n \in DOMAIN safe |-> safe[n].pol_systems])
            /\ ~pol_queue.some => result = "false"

\* a tree with an exception below a first child and an unsafe second child
\* has been traversed
C12_Witness ==
    /\ phase = "finished"
    /\ ~pol_queue.some
    /\ Len(pol_queue.errors) = 2
    /\ pol_queue.errors[1].subcomponent_name = <<1, 1>>
    /\ pol_queue.errors[2].subcomponent_name = <<2>>

(***************************************************************************)
(* The loop of verify_pol_systems on any stream of lines: the number of    *)
(* systems and the standard output of the interpreter are drawn, the loop  *)
(* reads it line by line.                                                  *)
(***************************************************************************)
MaxLines == 3

MaxObligations == 2

\* what may follow the prefix of a status line
DrawNumStrings ==
    { <<"0">>, <<"1">>, <<"2">>, <<"+", "0">>, <<"0", "1">>, <<>>, <<"x">> }

DrawLines ==
    { prefix \o num_str : prefix \in {OkPrefix, ErrorPrefix, TimeoutPrefix},
                          num_str \in DrawNumStrings }
    \cup { FinishedLine, FinishedLine \o <<" ">>, <<>>, <<"O", "K", ":", "0">> }

\* the handle of the interpreter process as Command::spawn returns it: no
\* statement of verify_pol_systems kills the child or waits for it
SpawnedChild == [ killed |-> FALSE, waited |-> FALSE ]

DriverInit ==
    \E pol_systems_len \in 1 .. MaxObligations :
    \E stdout \in SeqsUpTo(DrawLines, MaxLines) :
        /\ ctx = [pol_systems_len |-> pol_systems_len, stdout |-> stdout]
        /\ cur = 0
        /\ pol_queue = NewDriver
        /\ phase = "cas"
        /\ result = None
        /\ frames = <<>>
        /\ hist = SpawnedChild

\* one iteration of the loop: the next line is read
DriverReadLine ==
    /\ phase = "cas"
    /\ cur < Len(ctx.stdout)
    /\ cur' = cur + 1
    /\ pol_queue' = read_line(pol_queue, ctx.stdout[cur + 1], ctx.pol_systems_len)
    /\ IF pol_queue'.ret = "running"
       THEN UNCHANGED <<phase, result>>
       ELSE phase' = "finished" /\ result' = pol_queue'.ret
    /\ UNCHANGED <<ctx, frames, hist>>

\* the stream ends before the loop returned
DriverEndOfStream ==
    /\ phase = "cas"
    /\ cur = Len(ctx.stdout)
    /\ pol_queue' = [pol_queue EXCEPT !.ret = "panic"]
    /\ phase' = "finished"
    /\ result' = "panic"
    /\ UNCHANGED <<ctx, cur, frames, hist>>

DriverNext == DriverReadLine \/ DriverEndOfStream

DriverSpec == DriverInit /\ [][DriverNext]_vars

\* the status lines of n obligations, and the lines of the protocol
StatusLines(n) ==
    { prefix \o to_string(i) : prefix \in {OkPrefix, ErrorPrefix, TimeoutPrefix},
                               i \in 0 .. n - 1 }

ProtocolLines(n) == StatusLines(n) \cup {FinishedLine}

\* any number of status lines followed by exactly one FINISHED
ProtocolStream(lines, n) ==
    /\ lines # <<>>
    /\ lines[Len(lines)] = FinishedLine
    /\ \A k \in 1 .. Len(lines) - 1 : lines[k] \in StatusLines(n)

Verdicts == {"true", "false"}

\* C13 (as stated): the driver consumes every stream of status lines
\* `OK: i`, `ERROR: i`, `TIMEOUT: i` with i in 0..n-1 followed by one
\* FINISHED and ends with a verdict; a line read that is not exactly of one
\* of the four forms is a fatal protocol error and yields no verdict.
C13_ProtocolAcceptance ==
    /\ ProtocolStream(ctx.stdout, ctx.pol_systems_len) =>
        /\ phase = "finished" => result \in Verdicts /\ cur = Len(ctx.stdout)
        /\ phase = "cas" => cur < Len(ctx.stdout)
    /\ (\E k \in 1 .. cur : ctx.stdout[k] \notin ProtocolLines(ctx.pol_systems_len))
        => result \notin Verdicts

\* the stream `OK: +0`, `FINISHED` has been read and answered with success
C13_Witness ==
    /\ ctx.stdout = << OkPrefix \o <<"+", "0">>, FinishedLine >>
    /\ phase = "finished"
    /\ result = "true"

\* the lines read so far that start with prefix, as the indices they give
IndicesRead(prefix) ==
    LET read == SubSeq(ctx.stdout, 1, cur)
        lines == SelectSeq(read, LAMBDA line : strip_prefix(line, prefix).some
                                    /\ parse(strip_prefix(line, prefix).rest).ok)
    IN  [k \in DOMAIN lines |-> parse(strip_prefix(lines[k], prefix).rest).num]

\* C14: when the driver reads FINISHED it returns success if and only if no
\* ERROR line and no TIMEOUT line was read before it; the many-solutions
\* list holds the index of every ERROR line read and the timed-out list the
\* index of every TIMEOUT line read, in the order read.
C14_DriverVerdict ==
    /\ pol_queue.vec_many_solutions = IndicesRead(ErrorPrefix)
    /\ pol_queue.vec_timed_outs = IndicesRead(TimeoutPrefix)
    /\ (cur >= 1 /\ ctx.stdout[cur] = FinishedLine) =>
        /\ phase = "finished"
        /\ result = "true" <=>
            \A k \in 1 .. cur - 1 :
                /\ ~strip_prefix(ctx.stdout[k], ErrorPrefix).some
                /\ ~strip_prefix(ctx.stdout[k], TimeoutPrefix).some
    /\ phase = "finished" =>
        result = verify_pol_systems(TRUE, ctx.pol_systems_len, ctx.stdout)

\* FINISHED has been read after an ERROR line and a TIMEOUT line
C14_Witness ==
    /\ phase = "finished"
    /\ cur = 3
    /\ ctx.stdout[cur] = FinishedLine
    /\ pol_queue.vec_many_solutions = <<0>>
    /\ pol_queue.vec_timed_outs = <<1>>
    /\ result = "false"

(***************************************************************************)
(* The execution of the script generate_cocoa_script emits: one block per  *)
(* obligation, then println "FINISHED".  What the interpreter finds for an *)
(* obligation is drawn.                                                    *)
(***************************************************************************)
\* an obligation as the script meets it: whether its block is the bare
\* TIMEOUT line, and otherwise how the Try block ends
DrawObligations ==
    [ over_var_limit : BOOLEAN, groebner : {"one_in_ideal", "one_not_in_ideal", "timed_out"} ]

\* the status the block of an obligation prints
BlockStatus(obligation) ==
    IF obligation.over_var_limit \/ obligation.groebner = "timed_out" THEN "TIMEOUT"
    ELSE IF obligation.groebner = "one_not_in_ideal" THEN "ERROR"
    ELSE "OK"

ScriptInit ==
    \E n \in 1 .. MaxObligations + 1 :
    \E obligations \in [1 .. n -> DrawObligations] :
        /\ ctx = [obligations |-> obligations]
        /\ cur = 0
        /\ pol_queue = [stdout |-> <<>>]
        /\ phase = "cas"
        /\ result = None
        /\ frames = <<>>
        /\ hist = <<>>

\* the block get_cocoa_subscript emits for obligation cur: it prints its
\* status line, and exit leaves the interpreter after ERROR
ScriptRunBlock ==
    /\ phase = "cas"
    /\ cur < Len(ctx.obligations)
    /\ LET status == BlockStatus(ctx.obligations[cur + 1])
           prefix == IF status = "OK" THEN OkPrefix
                     ELSE IF status = "ERROR" THEN ErrorPrefix ELSE TimeoutPrefix
       IN  /\ pol_queue' = [stdout |-> Append(pol_queue.stdout, prefix \o to_string(cur))]
           /\ phase' = IF status = "ERROR" THEN "finished" ELSE phase
    /\ cur' = cur + 1
    /\ UNCHANGED <<ctx, frames, result, hist>>

\* the last statement of the script
ScriptPrintFinished ==
    /\ phase = "cas"
    /\ cur = Len(ctx.obligations)
    /\ pol_queue' = [stdout |-> Append(pol_queue.stdout, FinishedLine)]
    /\ phase' = "finished"
    /\ UNCHANGED <<ctx, cur, frames, result, hist>>

ScriptNext == ScriptRunBlock \/ ScriptPrintFinished

ScriptSpec == ScriptInit /\ [][ScriptNext]_vars

\* C15 (as stated): every execution of the emitted script for n obligations
\* prints, for each obligation i = 0..n-1 in submission order, exactly one
\* status line among `OK: i`, `ERROR: i`, `TIMEOUT: i`, and then `FINISHED`
\* as its last line, whatever the outcome of each obligation.
C15_ScriptOutput ==
    phase = "finished" =>
        LET n == Len(ctx.obligations)
        IN  /\ Len(pol_queue.stdout) = n + 1
            /\ \A i \in 0 .. n - 1 :
                pol_queue.stdout[i + 1] \in
                    { prefix \o to_string(i) : prefix \in {OkPrefix, ErrorPrefix, TimeoutPrefix} }
            /\ pol_queue.stdout[n + 1] = FinishedLine

\* the script has ended after its first block printed `ERROR: 0`, two
\* obligations submitted
C15_Witness ==
    /\ phase = "finished"
    /\ Len(ctx.obligations) = 2
    /\ pol_queue.stdout = << ErrorPrefix \o to_string(0) >>

(***************************************************************************)
(* The prohibition polynomial and the block emitted for one obligation.    *)
(* Texts are sequences of characters.                                      *)
(***************************************************************************)
\* BigInt::to_string
bigint_to_string(n) == IF n < 0 THEN <<"-">> \o to_string(0 - n) ELSE to_string(n)

\* format!("x_{}", signal_idx) and format!("u_{}", signal_idx)
indexed_signal_name(signal_idx) == <<"x", "_">> \o to_string(signal_idx)

prohibition_var(signal_idx) == <<"u", "_">> \o to_string(signal_idx)

\* the texts of seq, with sep between two of them
RECURSIVE intersperse(_, _)
intersperse(seq, sep) ==
    IF seq = <<>> THEN <<>>
    ELSE IF Len(seq) = 1 THEN seq[1]
    ELSE seq[1] \o sep \o intersperse(Tail(seq), sep)

\* the factor of one signal to fix: "(x - (1 - w))" for a boolean signal,
\* "((x - w)*u - 1)" otherwise
prohibition_factor(signal_idx, data, witness_value) ==
    IF data.is_boolean
    THEN <<"(">> \o indexed_signal_name(signal_idx) \o <<" ", "-", " ">>
         \o bigint_to_string(1 - witness_value) \o <<")">>
    ELSE <<"(", "(">> \o indexed_signal_name(signal_idx) \o <<" ", "-", " ">>
         \o bigint_to_string(witness_value) \o <<")", "*">> \o prohibition_var(signal_idx)
         \o <<" ", "-", " ", "1", ")">>

\* the zero of the ring, emitted when there is no signal to fix
RingElemZero == <<"R", "i", "n", "g", "E", "l", "e", "m", "(", "R", ",", " ", "0", ")">>

\* get_prohibition_witness_polynomial with SignalDisplayKind::Index;
\* signals_to_fix maps a signal to its SignalToFixData
get_prohibition_witness_polynomial(signals_to_fix, witness) ==
    IF DOMAIN signals_to_fix = {}
    THEN [ string |-> RingElemZero, num_vars |-> 0 ]
    ELSE LET ids == AscendingSeq(DOMAIN signals_to_fix)
             factors == [k \in DOMAIN ids |->
                            prohibition_factor(ids[k], signals_to_fix[ids[k]], witness[ids[k]])]
             booleans == Cardinality({sg \in DOMAIN signals_to_fix : signals_to_fix[sg].is_boolean})
         IN  [ string |-> intersperse(factors, <<" ", "*", " ">>),
               num_vars |-> booleans + 2 * (Len(ids) - booleans) ]

\* Options::default
default_groebner_cocoa_timeout_seconds == 5

default_max_vars_prohibition_polynomial_before_timeout == 75

\* an option of the command line: absent, or given with a text
Absent == [given |-> FALSE, text |-> <<>>]

Given(text) == [given |-> TRUE, text |-> text]

\* parse_command_line_arguments, the options -t and -m: the text given, or
\* the default when the option is absent
parse_command_line_arguments(timeout_arg, maxvars_arg) ==
    [ groebner_cocoa_timeout_seconds |->
        IF timeout_arg.given THEN parse(timeout_arg.text).num
        ELSE default_groebner_cocoa_timeout_seconds,
      max_vars_prohibition_polynomial_before_timeout |->
        IF maxvars_arg.given THEN parse(maxvars_arg.text).num
        ELSE default_max_vars_prohibition_polynomial_before_timeout ]

\* the locals of get_cocoa_subscript
var_limit == 75

timeout == 5

\* the variables of the ring of the block, as get_cocoa_subscript lists them:
\* x_i for the signals of the constraints in ascending order, then u_i for
\* the signals to fix that are not boolean
cocoa_ring_variables(pol_system) ==
    LET used_signal_indices ==
            UNION {take_signals(pol_system.constraints[n]) : n \in DOMAIN pol_system.constraints}
        used == AscendingSeq(used_signal_indices)
        auxiliaries == AscendingSeq({sg \in DOMAIN pol_system.signals_to_fix :
                                        ~pol_system.signals_to_fix[sg].is_boolean})
    IN  intersperse([k \in DOMAIN used |-> indexed_signal_name(used[k])]
                    \o [k \in DOMAIN auxiliaries |-> prohibition_var(auxiliaries[k])],
                    <<",", " ">>)

\* get_cocoa_subscript, as the shape of the block emitted: the bare TIMEOUT
\* line, or the Try block that submits the ideal to GBasisTimeout.  The
\* options are in the context and are not read.
get_cocoa_subscript(pol_system, witness, options, pol_system_idx) ==
    LET prohibition_polynomial ==
            get_prohibition_witness_polynomial(pol_system.signals_to_fix, witness)
    IN  IF prohibition_polynomial.num_vars > var_limit
        THEN [ submitted |-> FALSE,
               prints |-> { TimeoutPrefix \o to_string(pol_system_idx) },
               prohibition |-> prohibition_polynomial.string,
               timeout |-> 0 ]
        ELSE [ submitted |-> TRUE,
               prints |-> { prefix \o to_string(pol_system_idx) :
                                prefix \in {OkPrefix, ErrorPrefix, TimeoutPrefix} },
               prohibition |-> prohibition_polynomial.string,
               timeout |-> timeout ]

(***************************************************************************)
(* The variable-count guard: the -m option and an obligation with many     *)
(* signals to fix are drawn, the block of the obligation is emitted.       *)
(***************************************************************************)
MaxNonBoolean == 39

MaxBoolean == 2

\* the option -m: absent, or given with a number
DrawMaxVarsArgs == {Absent} \cup { Given(to_string(m)) : m \in {10, 74, 76, 100} }

GuardInit ==
    \E maxvars_arg \in DrawMaxVarsArgs :
    \E non_boolean \in MaxNonBoolean - 4 .. MaxNonBoolean :
    \E boolean \in 0 .. MaxBoolean :
        /\ ctx = [ options |-> parse_command_line_arguments(Absent, maxvars_arg),
                   witness |-> [sg \in 1 .. non_boolean + boolean |-> 0],
                   pol_system |->
                        [ constraints |-> <<>>,
                          signals_to_fix |-> [sg \in 1 .. non_boolean + boolean |->
                                                [is_boolean |-> sg > non_boolean]] ] ]
        /\ cur = 0
        /\ pol_queue = None
        /\ phase = "cas"
        /\ result = None
        /\ frames = <<>>
        /\ hist = <<>>

GuardEmitBlock ==
    /\ phase = "cas"
    /\ pol_queue' = get_cocoa_subscript(ctx.pol_system, ctx.witness, ctx.options, cur)
    /\ phase' = "finished"
    /\ UNCHANGED <<ctx, cur, frames, result, hist>>

GuardSpec == GuardInit /\ [][GuardEmitBlock]_vars

\* the variables of the prohibition polynomial of the obligation drawn
CountedVars ==
    LET fix == ctx.pol_system.signals_to_fix
    IN  Cardinality({sg \in DOMAIN fix : fix[sg].is_boolean})
        + 2 * Cardinality({sg \in DOMAIN fix : ~fix[sg].is_boolean})

\* C16 (as stated): with v the variable count of the prohibition polynomial
\* and m the configured -m/--maxvars value (default 75), the block of the
\* obligation is the bare `TIMEOUT: i` line when v > m and submits the
\* Groebner computation when v <= m.
C16_VariableCountGuard ==
    phase = "finished" =>
        LET m == ctx.options.max_vars_prohibition_polynomial_before_timeout
        IN  /\ CountedVars > m =>
                ~pol_queue.submitted /\ pol_queue.prints = {TimeoutPrefix \o to_string(cur)}
            /\ CountedVars <= m => pol_queue.submitted

\* an obligation with more variables than the limit given with -m 10 has
\* been emitted as a submitted block
C16_Witness ==
    /\ phase = "finished"
    /\ ctx.options.max_vars_prohibition_polynomial_before_timeout = 10
    /\ CountedVars > 10
    /\ pol_queue.submitted

(***************************************************************************)
(* The detection of binary restrictions: a prime, a signal and the stored  *)
(* coefficients of a constraint A*B = 0 with one factor k1*x and the other *)
(* k2*x + k0 are drawn, is_constraint_binary_restriction is applied.       *)
(***************************************************************************)
NoSignal == [some |-> FALSE, signal |-> 0]

SomeSignal(signal_idx) == [some |-> TRUE, signal |-> signal_idx]

\* the Option returned: the signal the constraint restricts to {0, 1}
is_constraint_binary_restriction(constraint, field_prime) ==
    IF DOMAIN constraint.c # {} THEN NoSignal
    ELSE IF ~has_constant_coefficient(constraint) THEN NoSignal
    ELSE IF Cardinality(take_signals(constraint)) # 1 THEN NoSignal
    ELSE IF ~(\/ Cardinality(DOMAIN constraint.a) = 1 /\ Cardinality(DOMAIN constraint.b) = 2
              \/ Cardinality(DOMAIN constraint.b) = 1 /\ Cardinality(DOMAIN constraint.a) = 2)
    THEN NoSignal
    ELSE LET a_single == Cardinality(DOMAIN constraint.a) = 1
                            /\ Cardinality(DOMAIN constraint.b) = 2
             single_signal == IF a_single THEN constraint.a ELSE constraint.b
             double_signals == IF a_single THEN constraint.b ELSE constraint.a
             signal_idx == CHOOSE sg \in take_signals(constraint) : TRUE
         IN  IF signal_idx \notin DOMAIN single_signal THEN NoSignal
             ELSE IF single_signal[signal_idx] # 1 THEN NoSignal
             ELSE IF signal_idx \notin DOMAIN double_signals THEN NoSignal
             ELSE IF double_signals[signal_idx] # 1 THEN NoSignal
             ELSE IF constant_coefficient \notin DOMAIN double_signals THEN NoSignal
             ELSE IF field_prime - double_signals[constant_coefficient] # 1 THEN NoSignal
             ELSE SomeSignal(signal_idx)

DrawPrimes == {3, 5, 7}

MaxSignal == 2

\* stored integers: representatives of 1, of -1 and of 2 modulo field_prime
DrawCoefficients(field_prime) ==
    {1, 1 + field_prime, field_prime - 1, 0 - 1, 2}

BinaryInit ==
    \E field_prime \in DrawPrimes :
    \E x \in 1 .. MaxSignal :
    \E k1, k2, k0 \in DrawCoefficients(field_prime) :
    \E swap \in BOOLEAN :
        LET factor == (x :> k1)
            other == (x :> k2) @@ (constant_coefficient :> k0)
        IN  /\ ctx = [ field_prime |-> field_prime, x |-> x,
                       constraint |-> IF swap THEN NewConstraint(other, factor, EmptyTerm)
                                      ELSE NewConstraint(factor, other, EmptyTerm) ]
            /\ cur = 0
            /\ pol_queue = None
            /\ phase = "cas"
            /\ result = None
            /\ frames = <<>>
            /\ hist = <<>>

BinaryDetect ==
    /\ phase = "cas"
    /\ pol_queue' = is_constraint_binary_restriction(ctx.constraint, ctx.field_prime)
    /\ phase' = "finished"
    /\ UNCHANGED <<ctx, cur, frames, result, hist>>

BinarySpec == BinaryInit /\ [][BinaryDetect]_vars

\* the term is x modulo field_prime
DenotesSignal(term, x, field_prime) ==
    /\ DOMAIN term = {x}
    /\ (term[x] - 1) % field_prime = 0

\* the term is x - 1 modulo field_prime
DenotesSignalMinusOne(term, x, field_prime) ==
    /\ DOMAIN term = {x, constant_coefficient}
    /\ (term[x] - 1) % field_prime = 0
    /\ (term[constant_coefficient] + 1) % field_prime = 0

\* the constraint is x * (x - 1) = 0, in either order of the factors
DenotesBinaryRestriction(constraint, x, field_prime) ==
    /\ DOMAIN constraint.c = {}
    /\ \/ DenotesSignal(constraint.a, x, field_prime)
            /\ DenotesSignalMinusOne(constraint.b, x, field_prime)
       \/ DenotesSignal(constraint.b, x, field_prime)
            /\ DenotesSignalMinusOne(constraint.a, x, field_prime)

\* C17 (as stated): the predicate returns x for every constraint with C
\* empty that denotes x*(x-1) = 0, in either order of the factors and
\* whichever integer representative modulo p is stored for a coefficient.
C17_BooleanDetection ==
    (phase = "finished" /\ DenotesBinaryRestriction(ctx.constraint, ctx.x, ctx.field_prime))
        => pol_queue = SomeSignal(ctx.x)

\* x * (x - 1) = 0 stored with the constant -1 has been answered with None
C17_Witness ==
    /\ phase = "finished"
    /\ DenotesBinaryRestriction(ctx.constraint, ctx.x, ctx.field_prime)
    /\ \E t \in {ctx.constraint.a, ctx.constraint.b} :
        constant_coefficient \in DOMAIN t /\ t[constant_coefficient] = 0 - 1
    /\ pol_queue = NoSignal

(***************************************************************************)
(* Reading a polynomial text as the computer algebra system reads it: the  *)
(* characters are cut into tokens, the tokens are parsed with the usual    *)
(* precedences and valued at a point of the field.                         *)
(***************************************************************************)
Token(t, n) == [t |-> t, n |-> n]

\* the longest run of digits a text starts with
RECURSIVE TakeDigits(_)
TakeDigits(chars) ==
    IF chars # <<>> /\ IsDigit(Head(chars)) THEN <<Head(chars)>> \o TakeDigits(Tail(chars))
    ELSE <<>>

Drop(chars, n) == SubSeq(chars, n + 1, Len(chars))

\* numbers, x_i, u_i, RingElem(R, 0), the signs and the parentheses; any
\* other character gives the token "?"
RECURSIVE Tokens(_)
Tokens(chars) ==
    IF chars = <<>> THEN <<>>
    ELSE LET c == Head(chars)
             digits == TakeDigits(chars)
             index == IF Len(chars) >= 2 /\ chars[2] = "_" THEN TakeDigits(Drop(chars, 2))
                      ELSE <<>>
         IN  IF c = " " THEN Tokens(Tail(chars))
             ELSE IF digits # <<>>
             THEN <<Token("num", DecimalValue(digits))>> \o Tokens(Drop(chars, Len(digits)))
             ELSE IF c \in {"x", "u"} /\ index # <<>>
             THEN <<Token(c, DecimalValue(index))>> \o Tokens(Drop(chars, 2 + Len(index)))
             ELSE IF strip_prefix(chars, RingElemZero).some
             THEN <<Token("zero", 0)>> \o Tokens(strip_prefix(chars, RingElemZero).rest)
             ELSE IF c \in {"+", "-", "*", "(", ")"}
             THEN <<Token(c, 0)>> \o Tokens(Tail(chars))
             ELSE <<Token("?", 0)>>

Parsed(ok, val, rest) == [ok |-> ok, val |-> val, rest |-> rest]

\* expr := term { (+|-) term };  term := unary { * unary };
\* unary := - unary | atom;  atom := number | x_i | u_i | zero | ( expr )
\* env gives the prime and the values of the signals and of the auxiliaries
RECURSIVE ParseExpr(_, _), ParseExprRest(_, _, _), ParseTerm(_, _), ParseTermRest(_, _, _), ParseUnary(_, _), ParseAtom(_, _)
ParseAtom(tokens, env) ==
    IF tokens = <<>> THEN Parsed(FALSE, 0, <<>>)
    ELSE LET tok == Head(tokens)
         IN  IF tok.t = "num" THEN Parsed(TRUE, tok.n % env.prime, Tail(tokens))
             ELSE IF tok.t = "x" THEN Parsed(tok.n \in DOMAIN env.x, Get(env.x, tok.n), Tail(tokens))
             ELSE IF tok.t = "u" THEN Parsed(tok.n \in DOMAIN env.u, Get(env.u, tok.n), Tail(tokens))
             ELSE IF tok.t = "zero" THEN Parsed(TRUE, 0, Tail(tokens))
             ELSE IF tok.t = "("
             THEN LET inner == ParseExpr(Tail(tokens), env)
                  IN  IF inner.ok /\ inner.rest # <<>> /\ Head(inner.rest).t = ")"
                      THEN Parsed(TRUE, inner.val, Tail(inner.rest))
                      ELSE Parsed(FALSE, 0, <<>>)
             ELSE Parsed(FALSE, 0, <<>>)

ParseUnary(tokens, env) ==
    IF tokens # <<>> /\ Head(tokens).t = "-"
    THEN LET operand == ParseUnary(Tail(tokens), env)
         IN  Parsed(operand.ok, (env.prime - operand.val) % env.prime, operand.rest)
    ELSE ParseAtom(tokens, env)

ParseTermRest(left, tokens, env) ==
    IF tokens # <<>> /\ Head(tokens).t = "*"
    THEN LET right == ParseUnary(Tail(tokens), env)
         IN  IF right.ok THEN ParseTermRest((left * right.val) % env.prime, right.rest, env)
             ELSE Parsed(FALSE, 0, <<>>)
    ELSE Parsed(TRUE, left, tokens)

ParseTerm(tokens, env) ==
    LET first == ParseUnary(tokens, env)
    IN  IF first.ok THEN ParseTermRest(first.val, first.rest, env) ELSE Parsed(FALSE, 0, <<>>)

ParseExprRest(left, tokens, env) ==
    IF tokens # <<>> /\ Head(tokens).t \in {"+", "-"}
    THEN LET right == ParseTerm(Tail(tokens), env)
             sum == IF Head(tokens).t = "+" THEN left + right.val
                    ELSE left + env.prime - right.val
         IN  IF right.ok THEN ParseExprRest(sum % env.prime, right.rest, env)
             ELSE Parsed(FALSE, 0, <<>>)
    ELSE Parsed(TRUE, left, tokens)

ParseExpr(tokens, env) ==
    LET first == ParseTerm(tokens, env)
    IN  IF first.ok THEN ParseExprRest(first.val, first.rest, env) ELSE Parsed(FALSE, 0, <<>>)

\* the value of a polynomial text at a point; the whole text must be read
ReadPolynomial(chars, env) ==
    LET read == ParseExpr(Tokens(chars), env)
    IN  [ok |-> read.ok /\ read.rest = <<>>, val |-> read.val]

(***************************************************************************)
(* The obligation handed to the computer algebra system: constraints over  *)
(* FieldPrime, a witness that satisfies them and the signals to fix are    *)
(* drawn; the system is optimised and its prohibition polynomial emitted.  *)
(***************************************************************************)
\* optimize_pol_system: the signals to fix tagged boolean when a constraint
\* is a binary restriction on them, the constraints 0 = 0 removed
optimize_pol_system(pol_system, field_prime) ==
    LET binary_signals ==
            { is_constraint_binary_restriction(pol_system.constraints[n], field_prime).signal :
                n \in { m \in DOMAIN pol_system.constraints :
                    is_constraint_binary_restriction(pol_system.constraints[m], field_prime).some } }
    IN  [ constraints |-> SelectSeq(pol_system.constraints, LAMBDA con : ~is_empty(con)),
          signals_to_fix |-> [sg \in pol_system.signals_to_fix |->
                                [is_boolean |-> sg \in binary_signals]] ]

\* constraints as they are stored, coefficients in 0 .. FieldPrime - 1
DrawObligationConstraints ==
    LET one(x) == (x :> 1)
        minus_one == FieldPrime - 1
        less_one(x) == (x :> 1) @@ (constant_coefficient :> minus_one)
    IN  UNION { { NewConstraint(one(x), less_one(x), EmptyTerm),
                  NewConstraint(less_one(x), one(x), EmptyTerm),
                  NewConstraint(one(x), one(x), (constant_coefficient :> minus_one)),
                  NewConstraint((x :> 2), less_one(x), EmptyTerm),
                  NewConstraint(EmptyTerm, EmptyTerm, less_one(x)) } : x \in 1 .. MaxSignal }
        \cup { NewConstraint(EmptyTerm, EmptyTerm, (1 :> 1) @@ (2 :> minus_one)),
               NewConstraint(one(1), one(2), EmptyTerm),
               NewConstraint(EmptyTerm, EmptyTerm, EmptyTerm) }

ProhibitionInit ==
    \E constraints \in SeqsUpTo(DrawObligationConstraints, MaxConstraints) :
    \E witness \in [1 .. MaxSignal -> FieldElements] :
    \E signals_to_fix \in SUBSET (1 .. MaxSignal) :
        /\ \A n \in DOMAIN constraints : Satisfies(constraints[n], witness)
        /\ ctx = [ witness |-> witness,
                   pol_system |-> [ constraints |-> constraints,
                                    signals_to_fix |-> signals_to_fix ] ]
        /\ cur = 0
        /\ pol_queue = None
        /\ phase = "cas"
        /\ result = None
        /\ frames = <<>>
        /\ hist = <<>>

ProhibitionEmit ==
    /\ phase = "cas"
    /\ LET optimized == optimize_pol_system(ctx.pol_system, FieldPrime)
       IN  pol_queue' = [ optimized |-> optimized,
                          vars |-> cocoa_ring_variables(optimized),
                          prohibition |->
                            get_prohibition_witness_polynomial(optimized.signals_to_fix,
                                                               ctx.witness) ]
    /\ phase' = "finished"
    /\ UNCHANGED <<ctx, cur, frames, result, hist>>

ProhibitionSpec == ProhibitionInit /\ [][ProhibitionEmit]_vars

\* the factors of a product: the tokens between the * outside parentheses
RECURSIVE SplitFactors(_, _, _)
SplitFactors(tokens, depth, factor) ==
    IF tokens = <<>> THEN <<factor>>
    ELSE LET tok == Head(tokens)
         IN  IF tok.t = "*" /\ depth = 0
             THEN <<factor>> \o SplitFactors(Tail(tokens), 0, <<>>)
             ELSE SplitFactors(Tail(tokens),
                               IF tok.t = "(" THEN depth + 1
                               ELSE IF tok.t = ")" THEN depth - 1 ELSE depth,
                               Append(factor, tok))

Factors(chars) == IF Tokens(chars) = <<>> THEN <<>> ELSE SplitFactors(Tokens(chars), 0, <<>>)

\* the constraints of the obligation hold a binary restriction on s
RestrictedToBinary(s) ==
    \E n \in DOMAIN ctx.pol_system.constraints :
        DenotesBinaryRestriction(ctx.pol_system.constraints[n], s, FieldPrime)

\* (x_s - (1 - w_s)) and ((x_s - w_s)*u_s - 1), as tokens
BooleanFactor(s, w) ==
    << Token("(", 0), Token("x", s), Token("-", 0), Token("num", 1 - w), Token(")", 0) >>

NonBooleanFactor(s, w) ==
    << Token("(", 0), Token("(", 0), Token("x", s), Token("-", 0), Token("num", w),
       Token(")", 0), Token("*", 0), Token("u", s), Token("-", 0), Token("num", 1),
       Token(")", 0) >>

\* C18 (as stated): the prohibition polynomial emitted holds exactly one
\* factor per signal s to fix, (x_s - (1 - w_s)) when the constraints hold a
\* binary restriction on s and ((x_s - w_s)*u_s - 1) otherwise; it is the
\* product of these factors and nothing else; its variable count is 1 per
\* boolean factor plus 2 per non-boolean factor.
C18_ProhibitionEncoding ==
    phase = "finished" =>
        LET fix == ctx.pol_system.signals_to_fix
            factors == Factors(pol_queue.prohibition.string)
            expected(s) == IF RestrictedToBinary(s) THEN BooleanFactor(s, ctx.witness[s])
                           ELSE NonBooleanFactor(s, ctx.witness[s])
        IN  /\ Len(factors) = Cardinality(fix)
            /\ \A s \in fix :
                Cardinality({k \in DOMAIN factors : factors[k] = expected(s)}) = 1
            /\ pol_queue.prohibition.num_vars
                = Cardinality({s \in fix : RestrictedToBinary(s)})
                  + 2 * Cardinality({s \in fix : ~RestrictedToBinary(s)})

\* the polynomial of an obligation without signals to fix has been emitted
\* as the zero of the ring
C18_Witness ==
    /\ phase = "finished"
    /\ ctx.pol_system.signals_to_fix = {}
    /\ ctx.pol_system.constraints # <<>>
    /\ pol_queue.prohibition.string = RingElemZero

\* the assignment satisfies every constraint of the obligation
SatisfiesAll(asg) ==
    \A n \in DOMAIN ctx.pol_system.constraints : Satisfies(ctx.pol_system.constraints[n], asg)

\* C together with P = 0 has a solution in the signals and the auxiliaries
ObligationSatisfiable ==
    \E asg \in [1 .. MaxSignal -> FieldElements] :
    \E aux \in [1 .. MaxSignal -> FieldElements] :
        /\ SatisfiesAll(asg)
        /\ LET value == ReadPolynomial(pol_queue.prohibition.string,
                                       [prime |-> FieldPrime, x |-> asg, u |-> aux])
           IN  value.ok /\ value.val = 0

\* C has a solution that differs from the witness on a signal to fix
OtherSolution ==
    \E asg \in [1 .. MaxSignal -> FieldElements] :
        /\ SatisfiesAll(asg)
        /\ \E s \in ctx.pol_system.signals_to_fix : asg[s] # ctx.witness[s]

\* C19 (as stated): for constraints C, a witness satisfying C and signals
\* to fix S, possibly empty, the system C together with P = 0 has a solution
\* if and only if C has a solution that differs from the witness on at
\* least one signal of S.
C19_ObligationMeaning ==
    phase = "finished" => (ObligationSatisfiable <=> OtherSolution)

\* an obligation without signals to fix is satisfiable although nothing can
\* differ from the witness
C19_Witness ==
    /\ phase = "finished"
    /\ ctx.pol_system.signals_to_fix = {}
    /\ ObligationSatisfiable
    /\ ~OtherSolution

(***************************************************************************)
(* The printer of constraints: a prime and a constraint with coefficients  *)
(* in 0 .. prime - 1 are drawn, get_constraint_polynomial prints it with   *)
(* SignalDisplayKind::Index.                                               *)
(***************************************************************************)
\* faulty variant: a coefficient above prime / 2 loses its sign
coefficient_to_string_without_sign(coeff, prime_field) ==
    IF coeff > prime_field \div 2 THEN bigint_to_string(prime_field - coeff)
    ELSE bigint_to_string(coeff)

coefficient_to_string(coeff, prime_field) ==
    IF coeff > prime_field \div 2 THEN <<"-">> \o bigint_to_string(prime_field - coeff)
    ELSE bigint_to_string(coeff)

starts_with(chars, c) == chars # <<>> /\ Head(chars) = c

\* the text of one entry of a linear term
summand_to_string(signal_idx, coeff, prime) ==
    IF signal_idx = constant_coefficient THEN coefficient_to_string(coeff, prime)
    ELSE IF coeff = 1 THEN indexed_signal_name(signal_idx)
    ELSE IF coeff = prime - 1 THEN <<"-">> \o indexed_signal_name(signal_idx)
    ELSE coefficient_to_string(coeff, prime) \o <<"*">> \o indexed_signal_name(signal_idx)

\* the fold of linear_term_to_string over the texts of the entries
RECURSIVE fold_summands(_, _)
fold_summands(curr, summands) ==
    IF summands = <<>> THEN curr
    ELSE LET next == Head(summands)
         IN  fold_summands(IF curr = <<>> THEN next
                           ELSE IF starts_with(next, "-")
                           THEN curr \o <<" ", "-", " ">> \o Drop(next, 1)
                           ELSE curr \o <<" ", "+", " ">> \o next,
                           Tail(summands))

linear_term_to_string(linear_term, prime, surround_with_parenthesis) ==
    IF DOMAIN linear_term = {} THEN <<"0">>
    ELSE LET keys == AscendingSeq(DOMAIN linear_term)
             str == fold_summands(<<>>, [k \in DOMAIN keys |->
                        summand_to_string(keys[k], linear_term[keys[k]], prime)])
         IN  IF surround_with_parenthesis /\ Cardinality(DOMAIN linear_term) > 1
             THEN <<"(">> \o str \o <<")">>
             ELSE str

get_constraint_polynomial(constraint, prime) ==
    IF DOMAIN constraint.a = {} \/ DOMAIN constraint.b = {}
    THEN linear_term_to_string(constraint.c, prime, FALSE)
    ELSE LET a_str == linear_term_to_string(constraint.a, prime, TRUE)
             b_str == linear_term_to_string(constraint.b, prime, TRUE)
             c_str == linear_term_to_string(constraint.c, prime, FALSE)
             product == a_str \o <<" ", "*", " ">> \o b_str
         IN  IF starts_with(c_str, "-") THEN product \o <<" ", "-", " ">> \o Drop(c_str, 1)
             ELSE IF DOMAIN constraint.c = {} THEN product
             ELSE product \o <<" ", "+", " ">> \o c_str

\* the linear terms over the keys with coefficients among coeffs
DrawTerms(keys, coeffs) == UNION { [ks -> coeffs] : ks \in SUBSET keys }

DrawPrinterPrimes == {3, 5}

PrinterInit ==
    \E prime \in DrawPrinterPrimes :
    \E a \in DrawTerms({constant_coefficient, 1}, {1, 2, prime - 1}) :
    \E b \in DrawTerms({1, 2}, {1, 2, prime - 1}) :
    \E c \in DrawTerms({constant_coefficient, 1, 2}, {0, 1, prime \div 2 + 1, prime - 1}) :
        /\ ctx = [prime |-> prime, constraint |-> NewConstraint(a, b, c)]
        /\ cur = 0
        /\ pol_queue = None
        /\ phase = "cas"
        /\ result = None
        /\ frames = <<>>
        /\ hist = <<>>

PrinterPrint ==
    /\ phase = "cas"
    /\ pol_queue' = [string |-> get_constraint_polynomial(ctx.constraint, ctx.prime)]
    /\ phase' = "finished"
    /\ UNCHANGED <<ctx, cur, frames, result, hist>>

PrinterSpec == PrinterInit /\ [][PrinterPrint]_vars

\* the value of a linear term at a point, modulo prime
RECURSIVE ValueOfTerm(_, _, _, _)
ValueOfTerm(term, keys, asg, prime) ==
    IF keys = {} THEN 0
    ELSE LET k == CHOOSE j \in keys : TRUE
         IN  (term[k] * (IF k = constant_coefficient THEN 1 ELSE asg[k])
              + ValueOfTerm(term, keys \ {k}, asg, prime)) % prime

\* the value of A*B + C at a point, modulo prime
ValueOfConstraint(con, asg, prime) ==
    (ValueOfTerm(con.a, DOMAIN con.a, asg, prime) * ValueOfTerm(con.b, DOMAIN con.b, asg, prime)
        + ValueOfTerm(con.c, DOMAIN con.c, asg, prime)) % prime

\* C20: the text printed for a constraint (A, B, C) with coefficients in
\* 0 .. p-1 reads back as A*B + C modulo p: it is well formed and has the
\* value of A*B + C at every point of the field.
C20_PrintingRoundTrip ==
    phase = "finished" =>
        LET tokens == Tokens(pol_queue.string)
        IN  \A asg \in [1 .. 2 -> 0 .. ctx.prime - 1] :
                LET read == ParseExpr(tokens, [prime |-> ctx.prime, x |-> asg, u |-> <<>>])
                IN  /\ read.ok
                    /\ read.rest = <<>>
                    /\ read.val = ValueOfConstraint(ctx.constraint, asg, ctx.prime)

\* a product with a coefficient above p/2 printed as a negative number and
\* a C that starts with a negative term has been printed
C20_Witness ==
    /\ phase = "finished"
    /\ ctx.prime = 5
    /\ DOMAIN ctx.constraint.a # {} /\ DOMAIN ctx.constraint.b # {}
    /\ DOMAIN ctx.constraint.c = {constant_coefficient, 2}
    /\ ctx.constraint.c[constant_coefficient] = 4
    /\ ctx.constraint.c[2] = 3
    /\ strip_prefix(pol_queue.string,
                    linear_term_to_string(ctx.constraint.a, 5, TRUE) \o <<" ", "*", " ">>
                    \o linear_term_to_string(ctx.constraint.b, 5, TRUE)).rest
        = <<" ", "-", " ", "1", " ", "-", " ", "2", "*", "x", "_", "2">>

(***************************************************************************)
(* Properties of the rules, of the construction and of the extraction.     *)
(***************************************************************************)
\* unsafe constraint j of the frame with its fixed signals substituted
SubstitutedUnsafeConstraint(p, j) ==
    apply_fixed_nodes_substitution(
        read_constraint(ctx.constraint_storage, frames[p].unsafe_constraints[j].associated_constraint),
        FixedSubstitutions(InputDataContextView(ctx, p), frames[p]))

\* the signals of unsafe constraint j that are not fixed
RemainingSignals(p, j) == frames[p].unsafe_constraints[j].signals \ frames[p].fixed_nodes

\* unsafe constraint j has the single remaining signal s, and substituted it
\* is linear with a non-zero coefficient on s
LinearisesTo(p, j, s) ==
    /\ frames[p].unsafe_constraints[j].active
    /\ RemainingSignals(p, j) = {s}
    /\ is_linear(SubstitutedUnsafeConstraint(p, j))
    /\ Get(SubstitutedUnsafeConstraint(p, j).c, s) % FieldPrime # 0

\* unsafe constraint j is deactivated in this step
Linearised(p, j) ==
    /\ frames[p].unsafe_constraints[j].active
    /\ ~frames'[p].unsafe_constraints[j].active

\* rule 1 or rule 3 is applied to the frame in this step
FiresOrActivates(p) ==
    \/ ActiveSafe(frames'[p]) # ActiveSafe(frames[p])
    \/ frames'[p].activated # frames[p].activated

FiringEnabled(p) ==
    \E i \in ActiveSafe(frames[p]) :
        frames[p].safe_assignments[i].rhs_signals \subseteq frames[p].fixed_nodes

\* rule 3 can be applied to the frame
ActivationEnabled(p) ==
    \E k \in (DOMAIN frames[p].subcomponents) \ frames[p].activated :
        frames[p].subcomponents[k].input_signals \subseteq frames[p].fixed_nodes

\* rule 2 can be applied to the frame
LinearisationEnabled(p) ==
    \E j \in ActiveUnsafe(frames[p]) : \E s \in RemainingSignals(p, j) : LinearisesTo(p, j, s)

EdgeIdentity(edge) == [f \in (DOMAIN edge) \ {"active"} |-> edge[f]]

MaxFrameConstraints == 2

MaxChildConstraints == 1

\* an empty A, and x in B
RawLinearInB(x) ==
    [ rank |-> <<8, x, 0, 0>>, safe |-> FALSE, lhs |-> 0,
      con |-> NewConstraint(EmptyTerm, (x :> 1), (constant_coefficient :> 1)) ]

\* x in A, and an empty B
RawLinearInA(x) ==
    [ rank |-> <<9, x, 0, 0>>, safe |-> FALSE, lhs |-> 0,
      con |-> NewConstraint((x :> 1), EmptyTerm, EmptyTerm) ]

\* x in C with coefficient zero
RawZeroCoefficient(x) ==
    [ rank |-> <<10, x, 0, 0>>, safe |-> FALSE, lhs |-> 0,
      con |-> NewConstraint(EmptyTerm, EmptyTerm, (x :> 0) @@ (constant_coefficient :> 1)) ]

\* the witness the stored constants are taken from
ZeroWitness(tc) == [s \in VisibleSignals(tc) |-> 0]

RawCatalogue(tc) ==
    {e \in Catalogue(tc, ZeroWitness(tc)) : WellFormed(e, ZeroWitness(tc))}
    \cup {RawLinearInB(x) : x \in VisibleSignals(tc)}
    \cup {RawLinearInA(x) : x \in VisibleSignals(tc)}
    \cup {RawZeroCoefficient(x) : x \in VisibleSignals(tc)}

\* constraint lists of at most n entries in any order, no signal assigned twice
RawDraws(tc, n) ==
    {es \in SeqsUpTo(RawCatalogue(tc), n) :
        \A i \in DOMAIN es, j \in DOMAIN es :
            (es[i].safe /\ es[j].safe /\ es[i].lhs = es[j].lhs) => i = j}

Panic == "panic"

ConstructionInit ==
    \E tree \in Skeletons :
    \E entries \in RawDraws(tree, MaxFrameConstraints) :
    \E below \in (IF tree.subcomponents = <<>> THEN {<<>>}
                  ELSE RawDraws(TreeAt(tree, <<1>>), MaxChildConstraints)) :
        LET c0 == ReadConstraints(
                    [ tree |-> tree, constraint_storage |-> <<>>, witness |-> [s \in 1 .. tree.number_signals |-> 0],
                      signal_name_map |-> [s \in 1 .. tree.number_signals |-> SignalName(s)] ],
                    <<>>, entries)
            c == IF tree.subcomponents = <<>> THEN c0 ELSE ReadConstraints(c0, <<1>>, below)
        IN  /\ ctx = c
            /\ frames = <<>>
            /\ cur = <<>>
            /\ phase = "construct"
            /\ pol_queue = [some |-> FALSE, pol_systems |-> <<>>]
            /\ result = None
            /\ hist = <<>>

\* VerificationGraph::new for the root, then for a child of a built frame
ConstructFrame ==
    /\ phase = "construct"
    /\ \E path \in {<<>>} \cup {<<k>> : k \in DOMAIN ctx.tree.subcomponents} :
        /\ path \notin DOMAIN frames
        /\ path # <<>> => <<>> \in DOMAIN frames
        /\ LET view == InputDataContextView(ctx, path)
           IN  IF NewVerificationGraph_panics(view)
               THEN /\ result' = Panic
                    /\ phase' = "aborted"
                    /\ UNCHANGED <<frames, cur>>
               ELSE /\ frames' = frames @@ (path :> NewFrame(view))
                    /\ cur' = Append(cur, path)
                    /\ UNCHANGED <<result, phase>>
    /\ UNCHANGED <<ctx, pol_queue, hist>>

ConstructionSpec == ConstructionInit /\ [][ConstructFrame]_vars

\* the tree metadata and the stored constraints of a built frame
FrameTree(p) == InputDataContextView(ctx, p).tree_constraints

StoredConstraint(id) == read_constraint(ctx.constraint_storage, id)

\* unsafe constraint j of the frame has the single signal s, is linear, and
\* holds s with a non-zero coefficient in A, in B or in C
SingleSignalLinear(p, j, s) ==
    LET con == StoredConstraint(frames[p].unsafe_constraints[j].associated_constraint)
    IN  /\ frames[p].unsafe_constraints[j].signals = {s}
        /\ is_linear(con)
        /\ \/ Get(con.a, s) # 0
           \/ Get(con.b, s) # 0
           \/ Get(con.c, s) # 0

\* the same, with the signal held by C
SingleSignalLinearInC(p, j, s) ==
    /\ SingleSignalLinear(p, j, s)
    /\ Get(StoredConstraint(frames[p].unsafe_constraints[j].associated_constraint).c, s) # 0

InitialFixed(p, SeedsFrom(_, _, _)) ==
    InputSignals(FrameTree(p))
    \cup {frames[p].safe_assignments[i].lhs_signal :
            i \in {n \in DOMAIN frames[p].safe_assignments :
                        frames[p].safe_assignments[n].rhs_signals = {}}}
    \cup {s \in VisibleSignals(FrameTree(p)) :
            \E j \in DOMAIN frames[p].unsafe_constraints : SeedsFrom(p, j, s)}

\* the frames no rule has been applied to
JustBuilt == {p \in Frames : frames[p].status = "built"}

\* C24 as stated: construction completes for every list of stored
\* constraints, and a frame just built has as fixed set exactly its inputs,
\* the LHS of its safe assignments without RHS signals, and the single signal
\* of its linear unsafe constraints with a non-zero coefficient on it, whether
\* A, B or C holds the signal.
C24_InitialFixedSet ==
    /\ result # Panic
    /\ \A p \in JustBuilt : frames[p].fixed_nodes = InitialFixed(p, SingleSignalLinear)

\* a frame built with all three kinds of initially fixed signals
C24_Witness ==
    \E p \in JustBuilt :
        /\ InputSignals(FrameTree(p)) # {}
        /\ \E i \in DOMAIN frames[p].safe_assignments :
                /\ frames[p].safe_assignments[i].rhs_signals = {}
                /\ frames[p].safe_assignments[i].lhs_signal \in frames[p].fixed_nodes
        /\ \E j \in DOMAIN frames[p].unsafe_constraints : \E s \in frames[p].fixed_nodes :
                /\ SingleSignalLinearInC(p, j, s)
                /\ s \notin InputSignals(FrameTree(p))
                /\ \A i \in DOMAIN frames[p].safe_assignments :
                        frames[p].safe_assignments[i].lhs_signal # s

\* what holds of the construction: where it completes, the fixed set is the
\* inputs, the LHS of the safe assignments without RHS signals and the single
\* signal of the linear unsafe constraints whose C part holds it with a
\* non-zero coefficient, and no linear unsafe constraint of a built frame has
\* a single signal that its C part does not hold.
InitialFixedSetFromC ==
    /\ \A p \in JustBuilt : frames[p].fixed_nodes = InitialFixed(p, SingleSignalLinearInC)
    /\ \A p \in JustBuilt : \A j \in DOMAIN frames[p].unsafe_constraints :
            \A s \in frames[p].unsafe_constraints[j].signals :
                SingleSignalLinear(p, j, s) => SingleSignalLinearInC(p, j, s)

ConstraintRange(p) ==
    FrameTree(p).initial_constraint
        .. (FrameTree(p).initial_constraint + FrameTree(p).no_constraints - 1)

\* the double arrows of the frame that name constraint id
DeclaredAssignments(p, id) ==
    {n \in DOMAIN FrameTree(p).are_double_arrow : FrameTree(p).are_double_arrow[n][1] = id}

SafeEdgesOf(p, id) ==
    {i \in DOMAIN frames[p].safe_assignments :
        frames[p].safe_assignments[i].associated_constraint = id}

UnsafeEdgesOf(p, id) ==
    {j \in DOMAIN frames[p].unsafe_constraints :
        frames[p].unsafe_constraints[j].associated_constraint = id}

MaxUnsafe == 3

MaxGraphSignals == 4

DrawSignalSets ==
    {S \in SUBSET (1 .. MaxGraphSignals) : Cardinality(S) \in {1, 2}}

ExtractorInit ==
    \E sets \in [1 .. MaxUnsafe -> DrawSignalSets] :
    \E flags \in [1 .. MaxUnsafe -> BOOLEAN] :
    \E fixed \in SUBSET (1 .. MaxGraphSignals) :
        /\ frames = (<<>> :> [ unsafe_constraints |->
                                    [j \in 1 .. MaxUnsafe |->
                                        [ signals |-> sets[j], associated_constraint |-> j - 1,
                                          active |-> flags[j] ]],
                               fixed_nodes |-> fixed,
                               status |-> "fixpoint" ])
        /\ ctx = <<>>
        /\ cur = << <<>> >>
        /\ phase = "extract"
        /\ pol_queue = {}
        /\ result = None
        /\ hist = <<>>

\* the extractor forms the components of the frame
ExtractComponents ==
    /\ phase = "extract"
    /\ pol_queue' = ConnectedComponents(TopFrame)
    /\ phase' = "extracted"
    /\ UNCHANGED <<ctx, frames, cur, result, hist>>

ExtractorSpec == ExtractorInit /\ [][ExtractComponents]_vars

\* active unsafe constraints a and b share a signal that is not fixed
SharesUnfixed(g, a, b) ==
    \E s \in g.unsafe_constraints[a].signals \cap g.unsafe_constraints[b].signals :
        s \notin g.fixed_nodes

\* a chain of active unsafe constraints from a to b in which each
\* consecutive pair shares a signal that is not fixed
Chained(g, a, b) ==
    \E chain \in SeqsUpTo(ActiveUnsafe(g), Cardinality(ActiveUnsafe(g))) :
        /\ chain # <<>>
        /\ chain[1] = a
        /\ chain[Len(chain)] = b
        /\ \A n \in 1 .. (Len(chain) - 1) : SharesUnfixed(g, chain[n], chain[n + 1])

\* C27: the components the extractor forms are a partition of the active
\* unsafe constraints: every active unsafe constraint is in exactly one of
\* them and they hold nothing else; two active unsafe constraints are in the
\* same component exactly if a chain of active unsafe constraints links
\* them, each consecutive pair sharing a signal that is not fixed.
C27_ExtractorComponents ==
    phase = "extracted" =>
        LET g == TopFrame
        IN  /\ \A j \in ActiveUnsafe(g) : Cardinality({c \in pol_queue : j \in c}) = 1
            /\ \A c \in pol_queue : c # {} /\ c \subseteq ActiveUnsafe(g)
            /\ \A a \in ActiveUnsafe(g), b \in ActiveUnsafe(g) :
                    (\E c \in pol_queue : a \in c /\ b \in c) <=> Chained(g, a, b)

\* three active constraints in one component: the first and the third share
\* only a fixed signal and are joined through the second
C27_Witness ==
    /\ phase = "extracted"
    /\ ActiveUnsafe(TopFrame) = {1, 2, 3}
    /\ TopFrame.unsafe_constraints[1].signals \cap TopFrame.unsafe_constraints[3].signals # {}
    /\ ~SharesUnfixed(TopFrame, 1, 3)
    /\ pol_queue = {{1, 2, 3}}

(***************************************************************************)
(* What fixing the signals_to_fix of the extracted components achieves.    *)
(***************************************************************************)
\* the frame after the rules have been applied until none applies, in the
\* order 1, 3, 2 and without the verification of the children
RECURSIVE PropagateToFixpoint(_, _)
PropagateToFixpoint(view, g) ==
    IF SomeCanFire(g)
    THEN PropagateToFixpoint(view,
            FireSafeAssignment(g, Minimum({i \in DOMAIN g.safe_assignments : CanFire(g, i)})))
    ELSE IF SomeCanActivate(g)
    THEN PropagateToFixpoint(view,
            ActivateSubComponent(g, Minimum({k \in DOMAIN g.subcomponents : CanActivate(g, k)})))
    ELSE IF SomeCanLinearise(view, g)
    THEN PropagateToFixpoint(view,
            LineariseUnsafeConstraint(view, g,
                Minimum({j \in DOMAIN g.unsafe_constraints : CanLinearise(view, g, j)})))
    ELSE g

\* the signals_to_fix of all the components of the frame
AllSignalsToFix(p) ==
    LET systems == PolynomialSystems(InputDataContextView(ctx, p), frames[p], p)
    IN  UNION {systems[n].signals_to_fix : n \in DOMAIN systems}

\* the fixed set of the frame after its signals_to_fix are fixed and
\* propagation is run again
FixedAfterObligations(p) ==
    PropagateToFixpoint(InputDataContextView(ctx, p),
        RemoveFixedInputs([frames[p] EXCEPT !.fixed_nodes = @ \cup AllSignalsToFix(p)])).fixed_nodes

\* the frames whose propagation stopped with active unsafe constraints
Stalled == {p \in Frames : frames[p].status = "fixpoint" /\ ActiveUnsafe(frames[p]) # {}}

\* C28 as stated: in every frame whose propagation stalls, once the
\* signals_to_fix of all its components are fixed and propagation is run
\* again, every output signal of the frame is fixed.
C28_SignalsToFixSuffice ==
    \A p \in Stalled : OutputSignals(FrameTree(p)) \subseteq FixedAfterObligations(p)

\* a stalled frame with an unfixed output among its signals_to_fix, all of
\* whose outputs are fixed once the signals_to_fix are
C28_Witness ==
    \E p \in Stalled :
        /\ AllSignalsToFix(p) \cap UnfixedOutputs(InputDataContextView(ctx, p), frames[p]) # {}
        /\ ~(OutputSignals(FrameTree(p)) \subseteq AllSignalsToFix(p) \cup frames[p].fixed_nodes)
        /\ OutputSignals(FrameTree(p)) \subseteq FixedAfterObligations(p)

\* a stalled frame all of whose outputs are assigned, left with an unfixed
\* output although its signals_to_fix are fixed
SignalsToFixFallShort ==
    \E p \in Stalled :
        /\ \A o \in OutputSignals(FrameTree(p)) :
                \E i \in DOMAIN frames[p].safe_assignments :
                    frames[p].safe_assignments[i].lhs_signal = o
        /\ ~(OutputSignals(FrameTree(p)) \subseteq FixedAfterObligations(p))

(***************************************************************************)
(* The residual components in the verdict of a frame and of the run.       *)
(***************************************************************************)
\* the frames that returned their verdict with unsafe constraints left
Residual == {p \in Frames : frames[p].status = "done" /\ ActiveUnsafe(frames[p]) # {}}

\* the verdict of the frame holds the obligation of component c at place n
ObligationOf(p, c, n) ==
    /\ frames[p].verdict.kind = "ModuleConditionallySafe"
    /\ n \in DOMAIN frames[p].verdict.pol_systems
    /\ frames[p].verdict.pol_systems[n]
            = PolynomialSystemFixedSignal(InputDataContextView(ctx, p), frames[p], c, p)

\* the component was flagged: the frame returned the exception
Flagged(p) == frames[p].verdict = Exception(p)

TwoChildren ==
    TreeConstraints(0, 0, 0, 4, 1,
        << TreeConstraints(1, 1, 1, 2, 1, <<>>), TreeConstraints(2, 1, 1, 2, 3, <<>>) >>)

IsolationInit ==
    \E w \in [1 .. TwoChildren.number_signals -> WitnessValues] :
        LET entries == SortByRank({DrawSafeConstant(x, w) :
                            x \in UNION {InputSignals(TwoChildren.subcomponents[k]) :
                                            k \in DOMAIN TwoChildren.subcomponents}})
            c == ReadConstraints(
                    [ tree |-> TwoChildren, constraint_storage |-> <<>>, witness |-> w,
                      signal_name_map |-> [s \in 1 .. TwoChildren.number_signals |->
                                                SignalName(s)] ],
                    <<>>, entries)
        IN  /\ ctx = c
            /\ frames = (<<>> :> NewFrame(InputDataContextView(c, <<>>)))
            /\ cur = << <<>> >>
            /\ phase = "verify"
            /\ pol_queue = [some |-> FALSE, pol_systems |-> <<>>]
            /\ result = None
            /\ hist = [ snapshot |-> <<>>, reruns |-> <<>>, verified |-> <<>>, cas |-> None,
                       spawned |-> 0 ]

IsolationSpec == IsolationInit /\ [][Next]_vars

\* frame q lies below frame p in the tree
Below(q, p) == Len(q) > Len(p) /\ SubSeq(q, 1, Len(p)) = p

\* C30: a frame is built with an empty substitutions list; in every step the
\* substitutions of at most one frame change, and they change only in a
\* frame that is propagating and below which every frame built has returned
\* its verdict, so that the verification of a child changes neither the list
\* of its parent nor the list of a sibling; and the substitution a frame
\* appends is the solution of a constraint of that frame as reduced by the
\* frame's own fixed signals and substitutions, over the one constraint
\* store all frames read.
C30_SubstitutionIsolation ==
    /\ [](\A p \in Frames : frames[p].status = "built" => frames[p].substitutions = <<>>)
    /\ [][/\ \A p \in (DOMAIN frames') \ Frames : frames'[p].substitutions = <<>>
          /\ ctx'.constraint_storage # ctx.constraint_storage =>
                \A p \in Frames : frames'[p].substitutions = frames[p].substitutions
          /\ \A p \in Frames :
                frames'[p].substitutions # frames[p].substitutions =>
                    /\ frames[p].status = "propagating"
                    /\ \A q \in Frames : Below(q, p) => frames[q].status = "done"
                    /\ \A q \in Frames \ {p} :
                            frames'[q].substitutions = frames[q].substitutions
                    /\ \E j \in DOMAIN frames[p].unsafe_constraints :
                       \E s \in RemainingSignals(p, j) :
                            /\ LinearisesTo(p, j, s)
                            /\ frames'[p].substitutions =
                                Append(frames[p].substitutions,
                                       Substitution(s, SolvedValue(
                                            SubstitutedUnsafeConstraint(p, j), s)))]_vars

\* both children have been verified and each recorded a substitution of its
\* own, while the parent recorded none
C30_Witness ==
    /\ {<<1>>, <<2>>} \subseteq Frames
    /\ frames[<<1>>].status = "done"
    /\ frames[<<2>>].status = "done"
    /\ Len(frames[<<1>>].substitutions) = 1
    /\ Len(frames[<<2>>].substitutions) = 1
    /\ frames[<<1>>].substitutions[1].var # frames[<<2>>].substitutions[1].var
    /\ frames[<<>>].substitutions = <<>>

(***************************************************************************)
(* The driver and the child process after an ERROR line.                   *)
(***************************************************************************)
\* the loop has read an ERROR line
ErrorRead == pol_queue.vec_many_solutions # <<>>

\* C31 as stated: once the driver has read an ERROR line it reads no
\* further line of the child, and when it returns its verdict after an
\* ERROR line the child has been killed and waited for.
C31_CancellationOnError ==
    /\ []((phase = "finished" /\ ErrorRead /\ result \in Verdicts)
            => (hist.killed /\ hist.waited))
    /\ [][ErrorRead => cur' = cur]_vars

\* the driver has read an ERROR line and, after it, a further status line,
\* and returned a verdict
C31_Witness ==
    /\ phase = "finished"
    /\ result = "false"
    /\ Len(pol_queue.vec_many_solutions) = 1
    /\ Len(pol_queue.vec_timed_outs) = 1
    /\ ctx.stdout[1] = ErrorPrefix \o <<"0">>
    /\ ~hist.killed
    /\ ~hist.waited

(***************************************************************************)
(* The outcome of the propagation of a frame against the order in which    *)
(* the rules are applied.  The frames hold, besides the constraints of     *)
(* Spec, sums of two signals, so that two unsafe constraints can come to   *)
(* have the same single remaining signal.                                  *)
(***************************************************************************)
\* x + y === w[x] + w[y]
DrawSum(x, y, w) ==
    [ rank |-> <<11, x, y, 0>>, safe |-> FALSE, lhs |-> 0,
      con |-> NewConstraint(EmptyTerm, EmptyTerm,
                            NumberTerm(2 * FieldPrime - w[x] - w[y]) @@ (x :> 1) @@ (y :> 1)) ]

\* constraint lists of at most n entries with a sum among them
DrawsWithSum(tc, w, n) ==
    LET pairs == {xy \in VisibleSignals(tc) \X VisibleSignals(tc) : xy[1] < xy[2]}
        sums == {DrawSum(xy[1], xy[2], w) : xy \in pairs}
        pool == {e \in Catalogue(tc, w) : WellFormed(e, w)} \cup sums
    IN  { SortByRank(S) : S \in { T \in SubsetsUpTo(pool, n) :
            /\ T \cap sums # {}
            /\ \A e \in T, f \in T : (e.safe /\ f.safe /\ e.lhs = f.lhs) => e = f } }

ConfluenceInit ==
    \E tree \in Skeletons :
    \E w \in [1 .. tree.number_signals -> WitnessValues] :
    \E entries \in DrawsWithSum(tree, w, MaxConstraints) :
        LET c == ReadConstraints(
                    [ tree |-> tree, constraint_storage |-> <<>>, witness |-> w,
                      signal_name_map |-> [s \in 1 .. tree.number_signals |-> SignalName(s)] ],
                    <<>>, entries)
        IN  /\ ctx = c
            /\ frames = (<<>> :> NewFrame(InputDataContextView(c, <<>>)))
            /\ cur = << <<>> >>
            /\ phase = "verify"
            /\ pol_queue = [some |-> FALSE, pol_systems |-> <<>>]
            /\ result = None
            /\ hist = [ snapshot |-> <<>>, reruns |-> <<>>, verified |-> <<>>, cas |-> None,
                       spawned |-> 0 ]

ConfluenceSpec == ConfluenceInit /\ [][Next]_vars

\* the frame as it was built, and the frame one order of the rules leads to
\* from there
AsBuilt(p) == NewFrame(InputDataContextView(ctx, p))

OneOutcome(p) ==
    PropagateToFixpoint(InputDataContextView(ctx, p), RemoveFixedInputs(AsBuilt(p)))

\* the frames whose propagation has stopped
AtFixpoint == {p \in Frames : frames[p].status \in {"fixpoint", "done"}}

\* C32 as stated: whatever the order in which the rules were applied, a frame
\* whose propagation has stopped has the same fixed set, the same active
\* edges and the same activated children.
C32_Confluence ==
    \A p \in AtFixpoint :
        /\ frames[p].fixed_nodes = OneOutcome(p).fixed_nodes
        /\ ActiveEdges(frames[p]) = ActiveEdges(OneOutcome(p))
        /\ frames[p].activated = OneOutcome(p).activated

\* C32, amended: whatever the order in which the rules were applied, a frame
\* whose propagation has stopped has the same fixed set, the same active
\* safe assignments and the same activated children; which unsafe
\* constraints are still active, and how many, depends on the order: an
\* unsafe constraint whose single remaining signal was fixed by another rule
\* first stays active.
C32_ConfluenceOfFixedSet ==
    \A p \in AtFixpoint :
        /\ frames[p].fixed_nodes = OneOutcome(p).fixed_nodes
        /\ ActiveSafe(frames[p]) = ActiveSafe(OneOutcome(p))
        /\ frames[p].activated = OneOutcome(p).activated

\* a stopped frame in which a safe assignment fired, a signal was fixed by
\* rule 2, and of two unsafe constraints that had the same single remaining
\* signal the other one was deactivated than in the order of OneOutcome
C32_Witness ==
    \E p \in AtFixpoint :
        /\ ActiveUnsafe(frames[p]) # ActiveUnsafe(OneOutcome(p))
        /\ frames[p].fixed_nodes = OneOutcome(p).fixed_nodes
        /\ frames[p].substitutions # <<>>

(***************************************************************************)
(* The inputs of the children that the frame still lists as not fixed.     *)
(***************************************************************************)
NotYetFixedIsInputsMinusFixed(g) ==
    \A k \in DOMAIN g.subcomponents :
        g.subcomponents[k].not_yet_fixed_inputs
            = g.subcomponents[k].input_signals \ g.fixed_nodes

\* C33 as stated: in every state of a frame, the one right after its
\* construction included, not_yet_fixed_inputs of each child is the child's
\* input set minus the fixed set, and in a frame whose propagation has stopped
\* every child whose inputs are all fixed has been activated.
C33_NotYetFixedInputs ==
    \A p \in Frames :
        /\ NotYetFixedIsInputsMinusFixed(frames[p])
        /\ p \in AtFixpoint =>
                \A k \in DOMAIN frames[p].subcomponents :
                    frames[p].subcomponents[k].input_signals \subseteq frames[p].fixed_nodes
                        => k \in frames[p].activated

\* a frame right after its construction with a child input that is in the
\* initial fixed set and is listed as not yet fixed
C33_Witness ==
    \E p \in Frames :
        /\ frames[p].status = "built"
        /\ \E k \in DOMAIN frames[p].subcomponents :
                frames[p].subcomponents[k].not_yet_fixed_inputs \cap frames[p].fixed_nodes # {}

\* from the start of the propagation on the listing is the input set minus
\* the fixed set
NotYetFixedInputsOncePropagating ==
    \A p \in Frames :
        /\ frames[p].status # "built" => NotYetFixedIsInputsMinusFixed(frames[p])
        /\ p \in AtFixpoint =>
                \A k \in DOMAIN frames[p].subcomponents :
                    frames[p].subcomponents[k].input_signals \subseteq frames[p].fixed_nodes
                        => k \in frames[p].activated

(***************************************************************************)
(* The loop of verify_pol_systems on the standard output of the emitted    *)
(* script: what the interpreter finds for each obligation is drawn, the    *)
(* script prints its lines, the loop reads them.                           *)
(***************************************************************************)
EmittedScriptInit ==
    \E n \in 1 .. MaxObligations + 1 :
    \E obligations \in [1 .. n -> DrawObligations] :
        /\ ctx = [ pol_systems_len |-> n,
                   obligations |-> obligations,
                   stdout |-> ScriptOutput([i \in 1 .. n |-> BlockStatus(obligations[i])], 1) ]
        /\ cur = 0
        /\ pol_queue = NewDriver
        /\ phase = "cas"
        /\ result = None
        /\ frames = <<>>
        /\ hist = SpawnedChild

EmittedScriptSpec == EmittedScriptInit /\ [][DriverNext]_vars

\* C34 as stated: on every stream the emitted script can print for n >= 1
\* obligations the driver ends by returning a boolean verdict: it never comes
\* to the end of the child's output without having returned and never enters
\* a state marked unreachable.
C34_DriverTotality ==
    /\ phase = "finished" => result \in Verdicts
    /\ (phase = "cas" /\ cur = Len(ctx.stdout)) => pol_queue.ret # "running"

\* the stream of two obligations, the first timed out by the guard and the
\* second with 1 not in the ideal, has been read to its end and the loop was
\* left without a verdict
C34_Witness ==
    /\ phase = "finished"
    /\ result = "panic"
    /\ Len(ctx.obligations) = 2
    /\ ctx.obligations[1].over_var_limit
    /\ BlockStatus(ctx.obligations[2]) = "ERROR"
    /\ ctx.stdout = << TimeoutPrefix \o to_string(0), ErrorPrefix \o to_string(1) >>
    /\ cur = 2

\* when the script prints no ERROR line the driver returns a boolean verdict
DriverTotalWithoutError ==
    (\A i \in DOMAIN ctx.obligations : BlockStatus(ctx.obligations[i]) # "ERROR")
        => /\ phase = "finished" => result \in Verdicts
           /\ phase = "cas" => cur < Len(ctx.stdout)

(***************************************************************************)
(* Success of the driver against the OK lines it has read.                 *)
(***************************************************************************)
\* C35 as stated: the driver returns success for n obligations only if it has
\* read, before FINISHED, a line `OK: i` for every i in 0..n-1; a stream in
\* which some obligation has no status line never yields success.
C35_SuccessRequiresEveryOk ==
    (phase = "finished" /\ result = "true") =>
        \A i \in 0 .. ctx.pol_systems_len - 1 :
            \E k \in 1 .. cur - 1 :
                /\ strip_prefix(ctx.stdout[k], OkPrefix).some
                /\ parse(strip_prefix(ctx.stdout[k], OkPrefix).rest).ok
                /\ parse(strip_prefix(ctx.stdout[k], OkPrefix).rest).num = i

\* success was returned for two obligations on the stream `OK: 0`, FINISHED,
\* which has no status line for obligation 1
C35_Witness ==
    /\ phase = "finished"
    /\ result = "true"
    /\ ctx.pol_systems_len = 2
    /\ ctx.stdout = << OkPrefix \o <<"0">>, FinishedLine >>

(***************************************************************************)
(* The frames a safe verdict of the run rests on.                          *)
(***************************************************************************)
\* child k of frame p was activated and its frame returned a verdict
ChildVerified(p, k) ==
    /\ k \in frames[p].activated
    /\ Append(p, k) \in Frames
    /\ frames[Append(p, k)].verdict.kind # "none"

\* C36 as stated: when the verdict of the run is safe, every sub-component
\* frame of the component tree was activated in its parent and has its own
\* verdict in the verdict tree; no child is left unverified because its
\* inputs never became fixed in its parent.
C36_SafeVerdictCoversTree ==
    (phase = "finished" /\ result = "true") =>
        \A p \in Frames : \A k \in DOMAIN TreeAt(ctx.tree, p).subcomponents :
            /\ ChildVerified(p, k)
            /\ Append(p, k) \in VerdictTree

\* the run ended safe although the root has a child with an input that was
\* never fixed: the child was not activated and has no frame
C36_Witness ==
    /\ phase = "finished"
    /\ result = "true"
    /\ \E k \in DOMAIN frames[<<>>].subcomponents :
        /\ frames[<<>>].subcomponents[k].not_yet_fixed_inputs # {}
        /\ k \notin frames[<<>>].activated
        /\ Append(<<>>, k) \notin Frames

\* when the verdict of the run is safe, every child that was activated has
\* returned a conditionally safe verdict
SafeVerdictCoversActivated ==
    (phase = "finished" /\ result = "true") =>
        \A p \in Frames : \A k \in frames[p].activated :
            /\ ChildVerified(p, k)
            /\ frames[Append(p, k)].verdict.kind = "ModuleConditionallySafe"

(***************************************************************************)
(* The outcomes that apply to a frame whose propagation has stopped.       *)
(***************************************************************************)
OutputsLeft(p) == OutputSignals(TreeAt(ctx.tree, p)) \ frames[p].fixed_nodes

SafeAssignmentLeft(p) ==
    \E i \in DOMAIN frames[p].safe_assignments :
        /\ frames[p].safe_assignments[i].active
        /\ frames[p].safe_assignments[i].lhs_signal \notin frames[p].fixed_nodes

UnsafeLeft(p) ==
    \E j \in DOMAIN frames[p].unsafe_constraints : frames[p].unsafe_constraints[j].active

\* the outcomes whose condition holds in frame p
OutcomesOf(p) ==
    (IF OutputsLeft(p) = {} /\ ~UnsafeLeft(p) /\ ~SafeAssignmentLeft(p) THEN {"safe"} ELSE {})
    \cup (IF UnsafeLeft(p) THEN {"extraction"} ELSE {})
    \cup (IF ~UnsafeLeft(p) /\ OutputsLeft(p) # {} THEN {"unfixed outputs"} ELSE {})

\* the verdict frame p returned is the one of the outcome
VerdictFollows(p, outcome) ==
    LET v == frames[p].verdict
    IN  CASE outcome = "safe" ->
                v.kind = "ModuleConditionallySafe" /\ v.pol_systems = <<>>
          [] outcome = "extraction" ->
                \/ v.kind = "ModuleConditionallySafe" /\ v.pol_systems # <<>>
                \/ v.kind = "Exception"
          [] outcome = "unfixed outputs" ->
                v.kind = "ModuleUnsafe" /\ v.unfixed_outputs # <<>>

\* the state no outcome is laid down for
OnlySafeAssignmentLeft(p) == OutputsLeft(p) = {} /\ ~UnsafeLeft(p) /\ SafeAssignmentLeft(p)

\* C37 as stated: in every state in which the propagation of a frame has
\* stopped exactly one outcome applies among unconditionally safe, extraction
\* and UnfixedOutputsAfterPropagation, the state with no active unsafe
\* constraint, every output fixed and an active safe assignment with unfixed
\* LHS included.
C37_VerdictTotal ==
    \A p \in AtFixpoint :
        /\ Cardinality(OutcomesOf(p)) = 1
        /\ frames[p].status = "done" => \A o \in OutcomesOf(p) : VerdictFollows(p, o)

\* C37, amended: in every state in which the propagation of a frame has
\* stopped at most one outcome applies, and the verdict returned is the one
\* of that outcome; none applies exactly in the state with no active unsafe
\* constraint, every output fixed and an active safe assignment whose LHS is
\* not fixed.
C37_VerdictUnambiguous ==
    \A p \in AtFixpoint :
        /\ Cardinality(OutcomesOf(p)) <= 1
        /\ OutcomesOf(p) = {} <=> OnlySafeAssignmentLeft(p)
        /\ frames[p].status = "done" => \A o \in OutcomesOf(p) : VerdictFollows(p, o)

\* a frame has returned a verdict from the state no outcome is laid down for:
\* no active unsafe constraint, every output fixed, an active safe assignment
\* whose LHS is not fixed
C37_Witness ==
    \E p \in Frames :
        /\ frames[p].status = "done"
        /\ OnlySafeAssignmentLeft(p)
        /\ OutcomesOf(p) = {}
        /\ frames[p].verdict.kind = "ModuleUnsafe"

(***************************************************************************)
(* The adjacency maps of a frame against its edge lists.                   *)
(***************************************************************************)
\* the signals of the whole circuit
AllSignals == 1 .. ctx.tree.number_signals

Listed(map, s) == IF s \in DOMAIN map THEN map[s] ELSE {}

StoredUnder(g, k) == g.subcomponents[k + 1]

HasKey(g, k) == (k + 1) \in DOMAIN g.subcomponents

\* C39 as stated: in a frame just built, every node tagged sub-component
\* input, respectively output, with child index k is in the input set,
\* respectively output set, of the entry of sub_components under key k, also
\* when the node_id of a child is not its position in the parent's list.
C39_PortTags ==
    \A p \in Frames : frames[p].status = "built" =>
        \A s \in DOMAIN frames[p].nodes :
            LET tag == frames[p].nodes[s]
            IN  /\ tag[1] = "SubComponentInputSignal" =>
                    /\ HasKey(frames[p], tag[2])
                    /\ s \in StoredUnder(frames[p], tag[2]).input_signals
                /\ tag[1] = "SubComponentOutputSignal" =>
                    /\ HasKey(frames[p], tag[2])
                    /\ s \in StoredUnder(frames[p], tag[2]).output_signals

\* the root was built for a tree whose only child, at position 0, has
\* node_id 1: the child's input is tagged 1, its output 0, and sub_components
\* has the key 0 only
C39_Witness ==
    /\ <<>> \in Frames
    /\ frames[<<>>].status = "built"
    /\ Len(ctx.tree.subcomponents) = 1
    /\ ctx.tree.subcomponents[1].node_id = 1
    /\ \E s \in DOMAIN frames[<<>>].nodes :
            frames[<<>>].nodes[s] = <<"SubComponentInputSignal", 1>>
    /\ \E s \in DOMAIN frames[<<>>].nodes :
            frames[<<>>].nodes[s] = <<"SubComponentOutputSignal", 0>>
    /\ ~HasKey(frames[<<>>], 1)

\* the tags of the output ports do agree with the map
OutputPortTags ==
    \A p \in Frames :
        \A s \in DOMAIN frames[p].nodes :
            frames[p].nodes[s][1] = "SubComponentOutputSignal" =>
                /\ HasKey(frames[p], frames[p].nodes[s][2])
                /\ s \in StoredUnder(frames[p], frames[p].nodes[s][2]).output_signals

(***************************************************************************)
(* The variables declared in the ring of a block against the variables of  *)
(* the polynomials of its ideal.                                           *)
(***************************************************************************)
\* the names a list "a, b, c" declares, in order
RECURSIVE DeclaredNames(_, _)
DeclaredNames(chars, name) ==
    IF chars = <<>> THEN (IF name = <<>> THEN <<>> ELSE <<name>>)
    ELSE IF Head(chars) = "," THEN <<name>> \o DeclaredNames(Tail(chars), <<>>)
    ELSE IF Head(chars) = " " THEN DeclaredNames(Tail(chars), name)
    ELSE DeclaredNames(Tail(chars), Append(name, Head(chars)))

\* the variables of kind t ("x" or "u") a polynomial text mentions
VariablesIn(chars, t) ==
    {Tokens(chars)[k].n : k \in {m \in DOMAIN Tokens(chars) : Tokens(chars)[m].t = t}}

\* the signals of the constraints kept in the block
KeptSignals ==
    UNION {take_signals(pol_queue.optimized.constraints[n]) :
                n \in DOMAIN pol_queue.optimized.constraints}

\* the signal variables the polynomials of the kept constraints mention
ConstraintVariables ==
    UNION {VariablesIn(get_constraint_polynomial(pol_queue.optimized.constraints[n], FieldPrime), "x") :
                n \in DOMAIN pol_queue.optimized.constraints}

\* C40 as stated: every variable of a polynomial of the ideal (x_s of a
\* constraint or of the prohibition polynomial, u_s of the prohibition
\* polynomial) is declared in the ring of the block, each once, the signal
\* variables in ascending order followed by the auxiliaries, also for a
\* signal to fix that is in no constraint kept after the stripping.
C40_EveryVariableDeclared ==
    phase = "finished" =>
        LET names == DeclaredNames(pol_queue.vars, <<>>)
            xs == ConstraintVariables \cup VariablesIn(pol_queue.prohibition.string, "x")
            us == VariablesIn(pol_queue.prohibition.string, "u")
        IN  names = [k \in DOMAIN AscendingSeq(xs) |-> indexed_signal_name(AscendingSeq(xs)[k])]
                    \o [k \in DOMAIN AscendingSeq(us) |-> prohibition_var(AscendingSeq(us)[k])]

\* a block for the constraint s1 * (s1 - 1) = 0 and the signals to fix s1 and
\* s2: the ring declares x_1 and u_2, the prohibition polynomial mentions x_2
C40_Witness ==
    /\ phase = "finished"
    /\ DOMAIN pol_queue.optimized.signals_to_fix = {1, 2}
    /\ KeptSignals = {1}
    /\ DeclaredNames(pol_queue.vars, <<>>) = << indexed_signal_name(1), prohibition_var(2) >>
    /\ 2 \in VariablesIn(pol_queue.prohibition.string, "x")

\* when every signal to fix is in a kept constraint, the ring declares every
\* variable of the ideal once, signals first
EveryVariableDeclaredWhenConstrained ==
    (phase = "finished" /\ DOMAIN pol_queue.optimized.signals_to_fix \subseteq KeptSignals) =>
        LET names == DeclaredNames(pol_queue.vars, <<>>)
            xs == ConstraintVariables \cup VariablesIn(pol_queue.prohibition.string, "x")
            us == VariablesIn(pol_queue.prohibition.string, "u")
        IN  names = [k \in DOMAIN AscendingSeq(xs) |-> indexed_signal_name(AscendingSeq(xs)[k])]
                    \o [k \in DOMAIN AscendingSeq(us) |-> prohibition_var(AscendingSeq(us)[k])]

====
